---- MODULE Spec2Model ----
(***************************************************************************)
(* Model of the crypto_grid_scalper decision engine: Grid (grid.py),       *)
(* RiskManager (risk.py), PositionReopenManager                            *)
(* (position_reopen_manager.py) and MarketPositionManager                  *)
(* (market_position_manager.py).                                           *)
(*                                                                         *)
(* grid.py and risk.py compute with decimal.Decimal under the context      *)
(* precision grid.py sets at import (getcontext().prec = 10).  TLC's       *)
(* integers are 32 bits wide, so a Decimal is modelled as Python holds it: *)
(* a sign, a coefficient kept as a sequence of decimal digits (most        *)
(* significant first, <<>> for zero) and an exponent.  Every arithmetic    *)
(* operation rounds its exact result to Prec significant digits, ties to   *)
(* even (ROUND_HALF_EVEN, the context default).                            *)
(***************************************************************************)
EXTENDS Integers, Sequences, FiniteSets, TLC

\* getcontext().prec = 10 (grid.py line 7)
Prec == 10

-----------------------------------------------------------------------------
(* Natural numbers as digit sequences *)

Front(a) == IF a = <<>> THEN <<>> ELSE SubSeq(a, 1, Len(a) - 1)

LastDigit(a) == IF a = <<>> THEN 0 ELSE a[Len(a)]

RECURSIVE Strip(_)
Strip(a) == IF a = <<>> THEN <<>>
            ELSE IF a[1] = 0 THEN Strip(Tail(a)) ELSE a

Zeros(n) == [i \in 1..n |-> 0]

RECURSIVE AddC(_, _, _)
AddC(a, b, carry) ==
    IF a = <<>> /\ b = <<>>
    THEN (IF carry = 0 THEN <<>> ELSE <<carry>>)
    ELSE LET s == LastDigit(a) + LastDigit(b) + carry
         IN  Append(AddC(Front(a), Front(b), s \div 10), s % 10)

NatAdd(a, b) == Strip(AddC(a, b, 0))

\* a - b for a >= b
RECURSIVE SubB(_, _, _)
SubB(a, b, borrow) ==
    IF a = <<>> THEN <<>>
    ELSE LET s == LastDigit(a) - LastDigit(b) - borrow
         IN  Append(SubB(Front(a), Front(b), IF s < 0 THEN 1 ELSE 0),
                    IF s < 0 THEN s + 10 ELSE s)

NatSub(a, b) == Strip(SubB(a, b, 0))

RECURSIVE LexCmp(_, _)
LexCmp(a, b) ==
    IF a = <<>> THEN 0
    ELSE IF a[1] < b[1] THEN -1
    ELSE IF a[1] > b[1] THEN 1
    ELSE LexCmp(Tail(a), Tail(b))

\* -1, 0, 1 as a < b, a = b, a > b (both without leading zeros)
NatCmp(a, b) ==
    IF Len(a) < Len(b) THEN -1
    ELSE IF Len(a) > Len(b) THEN 1
    ELSE LexCmp(a, b)

RECURSIVE MulC(_, _, _)
MulC(a, d, carry) ==
    IF a = <<>> THEN (IF carry = 0 THEN <<>> ELSE <<carry>>)
    ELSE LET s == LastDigit(a) * d + carry
         IN  Append(MulC(Front(a), d, s \div 10), s % 10)

NatMulDigit(a, d) == Strip(MulC(a, d, 0))

RECURSIVE NatMul(_, _)
NatMul(a, b) ==
    IF b = <<>> THEN <<>>
    ELSE NatAdd(Strip(NatMul(a, Front(b)) \o <<0>>), NatMulDigit(a, LastDigit(b)))

\* r div b and r mod b for r < 10 * b, by repeated subtraction
RECURSIVE QuotDigit(_, _, _)
QuotDigit(r, b, d) ==
    IF NatCmp(r, b) < 0 THEN [d |-> d, r |-> r]
    ELSE QuotDigit(NatSub(r, b), b, d + 1)

\* long division of a by b > 0: [q |-> a div b, r |-> a mod b]
RECURSIVE NatDivMod(_, _)
NatDivMod(a, b) ==
    IF a = <<>> THEN [q |-> <<>>, r |-> <<>>]
    ELSE LET prev == NatDivMod(Front(a), b)
             step == QuotDigit(Strip(Append(prev.r, LastDigit(a))), b, 0)
         IN  [q |-> Strip(Append(prev.q, step.d)), r |-> step.r]

RECURSIVE NatOfInt(_)
NatOfInt(n) == IF n = 0 THEN <<>> ELSE Append(NatOfInt(n \div 10), n % 10)

-----------------------------------------------------------------------------
(* decimal.Decimal: [sign, int, exp] stands for (-1)^sign * int * 10^exp *)

Dec(sign, int, exp) == [sign |-> IF int = <<>> THEN 0 ELSE sign, int |-> int, exp |-> exp]

\* Decimal(str(x)) of a number with n as its digits and k digits after the point
DecOf(n, k) == Dec(IF n < 0 THEN 1 ELSE 0, NatOfInt(IF n < 0 THEN -n ELSE n), -k)

DecOfInt(n) == DecOf(n, 0)

\* Decimal._fix: round the coefficient to Prec digits, ties to even
Fix(d) ==
    IF Len(d.int) <= Prec THEN d
    ELSE LET kept    == SubSeq(d.int, 1, Prec)
             rest    == SubSeq(d.int, Prec + 1, Len(d.int))
             half    == <<5>> \o Zeros(Len(rest) - 1)
             c       == LexCmp(rest, half)
             up      == c > 0 \/ (c = 0 /\ kept[Prec] % 2 = 1)
             rounded == IF up THEN NatAdd(kept, <<1>>) ELSE kept
             dropped == Len(rest)
         IN  IF Len(rounded) > Prec
             THEN Dec(d.sign, Front(rounded), d.exp + dropped + 1)
             ELSE Dec(d.sign, rounded, d.exp + dropped)

\* the coefficient of d written at exponent e <= d.exp
AlignInt(d, e) == IF d.int = <<>> THEN <<>> ELSE d.int \o Zeros(d.exp - e)

MinExp(x, y) == IF x.exp < y.exp THEN x.exp ELSE y.exp

\* the exact sum
ExactAdd(x, y) ==
    LET e  == MinExp(x, y)
        a  == AlignInt(x, e)
        b  == AlignInt(y, e)
        ab == NatCmp(a, b)
    IN  IF x.sign = y.sign THEN Dec(x.sign, NatAdd(a, b), e)
        ELSE IF ab = 0 THEN Dec(0, <<>>, e)
        ELSE IF ab > 0 THEN Dec(x.sign, NatSub(a, b), e)
        ELSE Dec(y.sign, NatSub(b, a), e)

\* Decimal.__add__
DAdd(x, y) == Fix(ExactAdd(x, y))

DNeg(x) == Dec(1 - x.sign, x.int, x.exp)

\* Decimal.__sub__
DSub(x, y) == DAdd(x, DNeg(y))

\* the exact product
ExactMul(x, y) ==
    Dec(IF x.sign = y.sign THEN 0 ELSE 1, NatMul(x.int, y.int), x.exp + y.exp)

\* Decimal.__mul__
DMul(x, y) == Fix(ExactMul(x, y))

\* Decimal.__truediv__ for y # 0: Prec + 1 quotient digits, the last one made
\* inexact (not 0 or 5) when a remainder is left, then rounded by Fix
DDiv(x, y) ==
    LET shift == Len(y.int) - Len(x.int) + Prec + 1
        qr    == IF shift >= 0
                 THEN NatDivMod(IF x.int = <<>> THEN <<>> ELSE x.int \o Zeros(shift), y.int)
                 ELSE NatDivMod(x.int, y.int \o Zeros(-shift))
        coeff == IF qr.r # <<>> /\ LastDigit(qr.q) % 5 = 0
                 THEN NatAdd(qr.q, <<1>>) ELSE qr.q
    IN  Fix(Dec(IF x.sign = y.sign THEN 0 ELSE 1, coeff, x.exp - y.exp - shift))

\* -1, 0, 1 as x < y, x = y, x > y (Decimal comparison is exact)
DCmp(x, y) ==
    LET e == MinExp(x, y)
        a == AlignInt(x, e)
        b == AlignInt(y, e)
    IN  IF x.sign # y.sign THEN (IF x.sign = 1 THEN -1 ELSE 1)
        ELSE IF x.sign = 0 THEN NatCmp(a, b) ELSE NatCmp(b, a)

DLe(x, y) == DCmp(x, y) <= 0
DLt(x, y) == DCmp(x, y) < 0
DGe(x, y) == DCmp(x, y) >= 0
DGt(x, y) == DCmp(x, y) > 0
DEq(x, y) == DCmp(x, y) = 0

\* Decimal.quantize(Decimal(1).scaleb(-places)) as round(d, places) calls
\* it: d at exponent -places, ties to even; ok is FALSE where quantize
\* raises InvalidOperation, the coefficient taking more than Prec digits
Quantize(d, places) ==
    LET k    == -places - d.exp
        all  == Zeros(k - Len(d.int)) \o d.int
        kept == IF k <= 0 THEN (IF d.int = <<>> THEN <<>> ELSE d.int \o Zeros(-k))
                ELSE Strip(SubSeq(all, 1, Len(all) - k))
        rest == IF k <= 0 THEN <<>> ELSE SubSeq(all, Len(all) - k + 1, Len(all))
        c    == IF k <= 0 THEN -1 ELSE LexCmp(rest, <<5>> \o Zeros(k - 1))
        up   == c > 0 \/ (c = 0 /\ LastDigit(kept) % 2 = 1)
        int  == IF up THEN NatAdd(kept, <<1>>) ELSE kept
    IN  [ok |-> Len(int) <= Prec, value |-> Dec(d.sign, int, -places)]

RECURSIVE NatToInt(_)
NatToInt(a) == IF a = <<>> THEN 0 ELSE 10 * NatToInt(Front(a)) + LastDigit(a)

\* ten times the value of d, for a d whose digits after the first one
\* behind the point are zeros
Tenths(d) ==
    (IF d.sign = 1 THEN -1 ELSE 1)
        * NatToInt(IF d.exp >= -1 THEN AlignInt(d, -1)
                   ELSE SubSeq(d.int, 1, Len(d.int) + d.exp + 1))

-----------------------------------------------------------------------------
(* State *)

VARIABLES
    config,                 \* the dict load_config returns (config.py), fixed after startup
    grid_levels,            \* Grid.grid_levels
    grid_width,             \* Grid.grid_width
    grid_center_price,      \* Grid.grid_center_price
    exit_check,             \* the last check_exit_conditions call: its arguments and its result
    positions_to_reopen,    \* PositionReopenManager.positions_to_reopen
    reopen_call,            \* the last PositionReopenManager call: the queue before it, its
                            \* argument, the gateway's answers and the orders it submitted
    manager,                \* the MarketPositionManager's fields and the position amount
                            \* the exchange holds for the symbol
    now,                    \* datetime.now(), in minutes
    mpm_call,               \* the last MarketPositionManager call: the manager before it, its
                            \* arguments, the analysis, the action and the gateway calls made
    bot,                    \* the Bot's own fields (bot.py) and whether the process has exited
    close_now,              \* whether the file ".close_now" exists in the working directory
    avg_price,              \* the entry price the exchange reports for the position, 0 without one
    tick                    \* the last Bot.run call: whether it met the marker, its price,
                            \* the calls it made in order, the exit reason and the state
                            \* right after an exit reset

gridVars == <<grid_levels, grid_width, grid_center_price>>
reopenVars == <<positions_to_reopen, reopen_call>>
marketVars == <<manager, now, mpm_call>>
botVars == <<bot, close_now, avg_price, tick>>

vars == <<config, grid_levels, grid_width, grid_center_price, exit_check,
          positions_to_reopen, reopen_call, manager, now, mpm_call,
          bot, close_now, avg_price, tick>>

\* A float with an integer value n prints as "n.0": Decimal(str(x)) has the
\* digits of 10*n and exponent -1.
DecOfFloat(n) == DecOf(n * 10, 1)

\* int(s) of an environment string; -1 stands for the ValueError of a string
\* that is no number
ParseInt(s) ==
    CASE s = "0" -> 0 [] s = "1" -> 1 [] s = "2" -> 2 [] s = "3" -> 3
      [] s = "4" -> 4 [] OTHER -> -1

\* load_config: the keys the modelled components read.  Prices, sizes and
\* percents are floats with integer values; 0 stands for a percent that is
\* not configured (float(...) or None).
BaseConfig ==
    [mode |-> "long",
     startPrice |-> 900, endPrice |-> 1100, gridSize |-> 4,
     enableRangeExitRule |-> TRUE, rangeExitThresholdPercent |-> 100,
     tpMode |-> "PERCENTAGE", takeProfitPercent |-> 0, stopLossPercent |-> 0,
     enablePositionReopen |-> TRUE,
     maxConsecutiveGridPositions |-> "3",
     maxMarketPositionReopens |-> "unlimited",
     neutralMomentumAction |-> "stop",
     enableMarketPositionLogic |-> TRUE,
     analysisIntervalMinutes |-> 2,
     volatilityDetectorMaxRetries |-> 2,
     dualSidePosition |-> FALSE,
     gridBotNeutralOnly |-> FALSE,
     positionSizeType |-> "QUOTE", positionSize |-> 10]

-----------------------------------------------------------------------------
(* Grid (grid.py) *)

\* the while loop of Grid.generate: levels from current_price up to new_end_price
RECURSIVE GridLoop(_, _, _)
GridLoop(current_price, new_end_price, interval) ==
    IF DLe(current_price, new_end_price)
    THEN <<current_price>> \o GridLoop(DAdd(current_price, interval), new_end_price, interval)
    ELSE <<>>

GridWidthOf(cfg) == DSub(DecOfFloat(cfg.endPrice), DecOfFloat(cfg.startPrice))

GridLevelsOf(cfg, center_price) ==
    LET center_price_dec == DecOfFloat(center_price)
        width            == GridWidthOf(cfg)
        interval         == DDiv(width, DecOfFloat(cfg.gridSize))
        new_start_price  == DSub(center_price_dec, DDiv(width, DecOfInt(2)))
        new_end_price    == DAdd(center_price_dec, DDiv(width, DecOfInt(2)))
    IN  GridLoop(new_start_price, new_end_price, interval)

\* Grid.generate(center_price)
Generate(center_price) ==
    /\ grid_center_price' = DecOfFloat(center_price)
    /\ grid_width' = GridWidthOf(config)
    /\ grid_levels' = GridLevelsOf(config, center_price)
    /\ UNCHANGED <<config, exit_check, reopenVars, marketVars, botVars>>

-----------------------------------------------------------------------------
(* RiskManager (risk.py) *)

NoReason == "None"
MaxPositionsReason == "Max Consecutive Positions Triggered"
StopLossReason == "Stop Loss Triggered"
TakeProfitReason == "Take Profit Triggered"
RangeExitReason == "Range Exit Rule Triggered"

\* mutant: the rule trips only above the limit
CheckMaxConsecutivePositions_Above(cfg, position_counter) ==
    IF cfg.maxConsecutiveGridPositions = "unlimited" THEN FALSE
    ELSE LET max_positions == ParseInt(cfg.maxConsecutiveGridPositions)
         IN  IF max_positions = -1 THEN FALSE
             ELSE position_counter > max_positions

\* RiskManager._check_max_consecutive_positions
CheckMaxConsecutivePositions(cfg, position_counter) ==
    IF cfg.maxConsecutiveGridPositions = "unlimited" THEN FALSE
    ELSE LET max_positions == ParseInt(cfg.maxConsecutiveGridPositions)
         IN  IF max_positions = -1 THEN FALSE
             ELSE position_counter >= max_positions

\* mutant: the bounds of the expanded range do not trip
CheckRangeExitRule_Strict(cfg, center, width, current_price_dec) ==
    LET lower_boundary   == DSub(center, DDiv(width, DecOfInt(2)))
        upper_boundary   == DAdd(center, DDiv(width, DecOfInt(2)))
        threshold        == DDiv(DecOfFloat(cfg.rangeExitThresholdPercent), DecOfInt(100))
        threshold_amount == DMul(width, threshold)
        upper_exit_price == DAdd(upper_boundary, threshold_amount)
        lower_exit_price == DSub(lower_boundary, threshold_amount)
    IN  DGt(current_price_dec, upper_exit_price) \/ DLt(current_price_dec, lower_exit_price)

\* RiskManager._check_range_exit_rule
CheckRangeExitRule(cfg, center, width, current_price_dec) ==
    LET lower_boundary   == DSub(center, DDiv(width, DecOfInt(2)))
        upper_boundary   == DAdd(center, DDiv(width, DecOfInt(2)))
        threshold        == DDiv(DecOfFloat(cfg.rangeExitThresholdPercent), DecOfInt(100))
        threshold_amount == DMul(width, threshold)
        upper_exit_price == DAdd(upper_boundary, threshold_amount)
        lower_exit_price == DSub(lower_boundary, threshold_amount)
    IN  DGe(current_price_dec, upper_exit_price) \/ DLe(current_price_dec, lower_exit_price)

\* mutant: the stop-loss price itself does not trip
CheckStopLoss_Strict(cfg, current_price_dec, entry_price) ==
    LET entry_price_dec == DecOfFloat(entry_price)
        sl_percent      == DDiv(DecOfFloat(cfg.stopLossPercent), DecOfInt(100))
    IN  IF cfg.mode = "long"
        THEN DLt(current_price_dec, DMul(entry_price_dec, DSub(DecOfInt(1), sl_percent)))
        ELSE IF cfg.mode = "short"
        THEN DGt(current_price_dec, DMul(entry_price_dec, DAdd(DecOfInt(1), sl_percent)))
        ELSE FALSE

\* RiskManager._check_stop_loss
CheckStopLoss(cfg, current_price_dec, entry_price) ==
    LET entry_price_dec == DecOfFloat(entry_price)
        sl_percent      == DDiv(DecOfFloat(cfg.stopLossPercent), DecOfInt(100))
    IN  IF cfg.mode = "long"
        THEN DLe(current_price_dec, DMul(entry_price_dec, DSub(DecOfInt(1), sl_percent)))
        ELSE IF cfg.mode = "short"
        THEN DGe(current_price_dec, DMul(entry_price_dec, DAdd(DecOfInt(1), sl_percent)))
        ELSE FALSE

\* mutant: every mode but short takes profit above the entry
CheckTakeProfit_NeutralAsLong(cfg, current_price_dec, entry_price) ==
    LET entry_price_dec == DecOfFloat(entry_price)
        tp_percent      == DDiv(DecOfFloat(cfg.takeProfitPercent), DecOfInt(100))
    IN  IF cfg.mode = "short"
        THEN DLe(current_price_dec, DMul(entry_price_dec, DSub(DecOfInt(1), tp_percent)))
        ELSE DGe(current_price_dec, DMul(entry_price_dec, DAdd(DecOfInt(1), tp_percent)))

\* RiskManager._check_take_profit
CheckTakeProfit(cfg, current_price_dec, entry_price) ==
    LET entry_price_dec == DecOfFloat(entry_price)
        tp_percent      == DDiv(DecOfFloat(cfg.takeProfitPercent), DecOfInt(100))
    IN  IF cfg.mode = "long"
        THEN DGe(current_price_dec, DMul(entry_price_dec, DAdd(DecOfInt(1), tp_percent)))
        ELSE IF cfg.mode = "short"
        THEN DLe(current_price_dec, DMul(entry_price_dec, DSub(DecOfInt(1), tp_percent)))
        ELSE FALSE

\* mutant: stop loss is checked before the max-positions rule
CheckExitConditions_StopLossFirst(cfg, center, width, current_price, position_counter, entry_price) ==
    LET current_price_dec == DecOfFloat(current_price)
    IN  IF cfg.stopLossPercent # 0 /\ entry_price # 0
           /\ CheckStopLoss(cfg, current_price_dec, entry_price)
        THEN StopLossReason
        ELSE IF CheckMaxConsecutivePositions(cfg, position_counter)
        THEN MaxPositionsReason
        ELSE IF cfg.takeProfitPercent # 0 /\ entry_price # 0
                /\ CheckTakeProfit(cfg, current_price_dec, entry_price)
        THEN TakeProfitReason
        ELSE IF cfg.enableRangeExitRule
                /\ CheckRangeExitRule(cfg, center, width, current_price_dec)
        THEN RangeExitReason
        ELSE NoReason

\* RiskManager.check_exit_conditions; entry_price 0 stands for None (and for
\* 0.0, which is as falsy)
CheckExitConditions(cfg, center, width, current_price, position_counter, entry_price) ==
    LET current_price_dec == DecOfFloat(current_price)
    IN  IF CheckMaxConsecutivePositions(cfg, position_counter)
        THEN MaxPositionsReason
        ELSE IF cfg.stopLossPercent # 0 /\ entry_price # 0
                /\ CheckStopLoss(cfg, current_price_dec, entry_price)
        THEN StopLossReason
        ELSE IF cfg.takeProfitPercent # 0 /\ entry_price # 0
                /\ CheckTakeProfit(cfg, current_price_dec, entry_price)
        THEN TakeProfitReason
        ELSE IF cfg.enableRangeExitRule
                /\ CheckRangeExitRule(cfg, center, width, current_price_dec)
        THEN RangeExitReason
        ELSE NoReason

-----------------------------------------------------------------------------
(* PositionReopenManager (position_reopen_manager.py) *)

\* float(grid_level) of a Decimal with an integer value
FloatOfDec(d) == Tenths(d) \div 10

\* the dict add_position_to_reopen builds
PositionData(grid_level, side, quantity, position_idx) ==
    [grid_level |-> FloatOfDec(grid_level), side |-> side,
     quantity |-> quantity, position_idx |-> position_idx]

\* mutant: an entry equal to a queued one is not queued again
AppendPosition_Dedup(queue, position_data) ==
    IF \E i \in 1..Len(queue) : queue[i] = position_data
    THEN queue ELSE Append(queue, position_data)

\* self.positions_to_reopen.append(position_data)
AppendPosition(queue, position_data) == Append(queue, position_data)

\* PositionReopenManager._get_position_side_from_idx
GetPositionSideFromIdx(position_idx) ==
    CASE position_idx = "0" -> "LONG"
      [] position_idx = "1" -> "SHORT"
      [] OTHER -> "BOTH"

\* the create_order call of process_reopen_queue; the price is the level
\* printed with eight decimals
ReopenOrder(position_data) ==
    [order_type |-> "LIMIT", side |-> position_data.side,
     quantity |-> position_data.quantity, price |-> position_data.grid_level,
     position_side |-> GetPositionSideFromIdx(position_data.position_idx)]

\* mutant: list.remove leaves the list as it is
RemoveFirst_Keep(queue, x) == queue

\* list.remove(x): the first element equal to x is removed
RECURSIVE RemoveFirst(_, _)
RemoveFirst(queue, x) ==
    IF queue = <<>> THEN <<>>
    ELSE IF Head(queue) = x THEN Tail(queue)
    ELSE <<Head(queue)>> \o RemoveFirst(Tail(queue), x)

\* mutant: only the entry at the head of the queue is tried
QueueLoop_HeadOnly(snapshot, i, acc, results) ==
    IF snapshot = <<>> THEN acc
    ELSE [queue  |-> IF results[1] THEN RemoveFirst(acc.queue, snapshot[1])
                     ELSE acc.queue,
          orders |-> Append(acc.orders, ReopenOrder(snapshot[1]))]

\* mutant: the loop stops at the first order the gateway refuses
RECURSIVE QueueLoop_StopAtFailure(_, _, _, _)
QueueLoop_StopAtFailure(snapshot, i, acc, results) ==
    IF i > Len(snapshot) \/ (i > 1 /\ ~results[i - 1]) THEN acc
    ELSE QueueLoop_StopAtFailure(snapshot, i + 1,
             [queue  |-> IF results[i] THEN RemoveFirst(acc.queue, snapshot[i])
                         ELSE acc.queue,
              orders |-> Append(acc.orders, ReopenOrder(snapshot[i]))],
             results)

\* the for loop of process_reopen_queue over a copy of the queue: results[i]
\* is whether create_order answered for the i-th entry of the copy
RECURSIVE QueueLoop(_, _, _, _)
QueueLoop(snapshot, i, acc, results) ==
    IF i > Len(snapshot) THEN acc
    ELSE QueueLoop(snapshot, i + 1,
             [queue  |-> IF results[i] THEN RemoveFirst(acc.queue, snapshot[i])
                         ELSE acc.queue,
              orders |-> Append(acc.orders, ReopenOrder(snapshot[i]))],
             results)

\* the number of create_order calls a process_reopen_queue call makes
ReopenAttempts(cfg, queue) == IF cfg.enablePositionReopen THEN Len(queue) ELSE 0

\* PositionReopenManager.get_queue_size
GetQueueSize == Len(positions_to_reopen)

\* the call before the last one, kept with the last one
PreviousCall == [k \in DOMAIN reopen_call \ {"prev"} |-> reopen_call[k]]

ReopenInitState ==
    /\ positions_to_reopen = <<>>
    /\ reopen_call = [op |-> "none"]

MaxQueue == 3

\* PositionReopenManager.add_position_to_reopen
AddPositionToReopen(grid_level, side, quantity, position_idx) ==
    /\ Len(positions_to_reopen) < MaxQueue
    /\ positions_to_reopen' =
           AppendPosition(positions_to_reopen,
                          PositionData(grid_level, side, quantity, position_idx))
    /\ reopen_call' = [op |-> "add_position_to_reopen", before |-> positions_to_reopen,
                       entry |-> PositionData(grid_level, side, quantity, position_idx),
                       prev |-> PreviousCall]
    /\ UNCHANGED <<config, gridVars, exit_check, marketVars, botVars>>

\* PositionReopenManager.process_reopen_queue
ProcessReopenQueue(results) ==
    LET done == QueueLoop(positions_to_reopen, 1,
                          [queue |-> positions_to_reopen, orders |-> <<>>], results)
    IN  /\ IF ~config.enablePositionReopen \/ positions_to_reopen = <<>>
           THEN /\ positions_to_reopen' = positions_to_reopen
                /\ reopen_call' = [op |-> "process_reopen_queue",
                                   before |-> positions_to_reopen,
                                   results |-> results, orders |-> <<>>,
                                   prev |-> PreviousCall]
           ELSE /\ positions_to_reopen' = done.queue
                /\ reopen_call' = [op |-> "process_reopen_queue",
                                   before |-> positions_to_reopen,
                                   results |-> results, orders |-> done.orders,
                                   prev |-> PreviousCall]
        /\ UNCHANGED <<config, gridVars, exit_check, marketVars, botVars>>

\* PositionReopenManager.clear_reopen_queue
ClearReopenQueue ==
    /\ positions_to_reopen' = <<>>
    /\ reopen_call' = [op |-> "clear_reopen_queue", before |-> positions_to_reopen,
                       prev |-> PreviousCall]
    /\ UNCHANGED <<config, gridVars, exit_check, marketVars, botVars>>

-----------------------------------------------------------------------------
(* MarketPositionManager (market_position_manager.py).  The manager's     *)
(* fields are the fields of the record manager; amt is the position       *)
(* amount get_position_information reports (one unit per market order,    *)
(* positive long, negative short) and calls the gateway calls of the      *)
(* running method.  "None" stands for None, an entry price of 0 for None, *)
(* a last_analysis_time of -1 for None.  Target prices are held in        *)
(* hundredths, 0 for a key the dict does not have.                        *)

NoResult == [trend |-> "None", momentum |-> "None", none |-> TRUE]
NoTargets == [empty |-> TRUE]

\* MarketPositionManager.__init__
NewManager ==
    [last_analysis_time |-> -1,
     last_analysis_result |-> NoResult,
     market_position |-> "None",
     market_position_entry_price |-> 0,
     market_position_targets |-> NoTargets,
     market_position_reopens |-> 0,
     last_signal |-> "None",
     amt |-> 0,
     calls |-> <<>>]

\* mutant: an analysis is due at every call
ShouldRunAnalysis_Always(m, cfg, time) == TRUE

\* MarketPositionManager.should_run_analysis
ShouldRunAnalysis(m, cfg, time) ==
    \/ m.last_analysis_time = -1
    \/ time - m.last_analysis_time >= cfg.analysisIntervalMinutes

\* f"{trend}_{momentum}"
SignalOf(result) == result.trend \o "_" \o result.momentum

\* mutant: the trend alone opens a position
ActionFor_TrendOnly(cfg, result) ==
    IF result.trend = "UPTREND" THEN "OPEN_LONG"
    ELSE IF result.trend = "DOWNTREND" THEN "OPEN_SHORT"
    ELSE IF result.momentum = "NEUTRAL" /\ cfg.neutralMomentumAction = "stop" THEN "CLOSE"
    ELSE "None"

\* the action determine_action returns for a result that differs from the
\* previous one
ActionFor(cfg, result) ==
    IF result.trend = "UPTREND" /\ result.momentum = "OVERBOUGHT" THEN "OPEN_LONG"
    ELSE IF result.trend = "DOWNTREND" /\ result.momentum = "OVERSOLD" THEN "OPEN_SHORT"
    ELSE IF result.momentum = "NEUTRAL"
    THEN (IF cfg.neutralMomentumAction = "stop" THEN "CLOSE" ELSE "None")
    ELSE "None"

\* mutant: a repeated result is acted on again
DetermineAction_NoDebounce(m, cfg, result) ==
    [m |-> [m EXCEPT !.market_position_reopens =
                         IF m.last_signal # "None" /\ m.last_signal # SignalOf(result)
                         THEN 0 ELSE @,
                     !.last_signal = SignalOf(result),
                     !.last_analysis_result = result],
     action |-> ActionFor(cfg, result)]

\* mutant: a changed signal does not reset the reopens counter
DetermineAction_NoReset(m, cfg, result) ==
    LET same == /\ m.last_analysis_result # NoResult
                /\ result.trend = m.last_analysis_result.trend
                /\ result.momentum = m.last_analysis_result.momentum
    IN  [m |-> [m EXCEPT !.last_signal = SignalOf(result),
                         !.last_analysis_result = IF same THEN @ ELSE result],
         action |-> IF same THEN "None" ELSE ActionFor(cfg, result)]

\* mutant: every analysis resets the reopens counter
DetermineAction_AlwaysReset(m, cfg, result) ==
    LET same == /\ m.last_analysis_result # NoResult
                /\ result.trend = m.last_analysis_result.trend
                /\ result.momentum = m.last_analysis_result.momentum
    IN  [m |-> [m EXCEPT !.market_position_reopens = 0,
                         !.last_signal = SignalOf(result),
                         !.last_analysis_result = IF same THEN @ ELSE result],
         action |-> IF same THEN "None" ELSE ActionFor(cfg, result)]

\* MarketPositionManager.determine_action: the manager after it and the
\* action returned
DetermineAction(m, cfg, result) ==
    LET same == /\ m.last_analysis_result # NoResult
                /\ result.trend = m.last_analysis_result.trend
                /\ result.momentum = m.last_analysis_result.momentum
    IN  [m |-> [m EXCEPT !.market_position_reopens =
                             IF m.last_signal # "None" /\ m.last_signal # SignalOf(result)
                             THEN 0 ELSE @,
                         !.last_signal = SignalOf(result),
                         !.last_analysis_result = IF same THEN @ ELSE result],
         action |-> IF same THEN "None" ELSE ActionFor(cfg, result)]

\* MarketPositionManager._calculate_market_position_targets
CalculateMarketPositionTargets(cfg, entry_price, side) ==
    [entry_price |-> entry_price,
     side |-> side,
     sl_price |-> IF cfg.stopLossPercent = 0 THEN 0
                  ELSE IF side = "BUY" THEN entry_price * (100 - cfg.stopLossPercent)
                  ELSE entry_price * (100 + cfg.stopLossPercent),
     tp_price |-> IF cfg.takeProfitPercent = 0 THEN 0
                  ELSE IF side = "BUY" THEN entry_price * (100 + cfg.takeProfitPercent)
                  ELSE entry_price * (100 - cfg.takeProfitPercent)]

MaxPositionAmt == 1

\* the amount after a market order of one unit on side
AmtAfter(amt, side) == IF side = "BUY" THEN amt + 1 ELSE amt - 1

\* MarketPositionManager.open_market_position; ok: create_order answered
OpenMarketPosition(m, cfg, side, current_price, ok) ==
    LET order == [call |-> "create_order", order_type |-> "MARKET", side |-> side,
                  position_side |-> IF side = "BUY" THEN "LONG" ELSE "SHORT",
                  ok |-> ok]
    IN  IF ok
        THEN [m EXCEPT !.market_position = side,
                       !.market_position_entry_price = current_price,
                       !.market_position_targets =
                           CalculateMarketPositionTargets(cfg, current_price, side),
                       !.amt = AmtAfter(@, side),
                       !.calls = Append(@, order)]
        ELSE [m EXCEPT !.calls = Append(@, order)]

\* MarketPositionManager.close_market_position; g.info: get_position_information
\* answered, g.close: close_position_market answered
CloseMarketPosition(m, g) ==
    LET info  == [call |-> "get_position_information", ok |-> g.info]
        close == [call |-> "close_position_market",
                  side |-> IF m.amt > 0 THEN "SELL" ELSE "BUY", ok |-> g.close]
    IN  IF m.market_position = "None" THEN m
        ELSE IF ~g.info \/ m.amt = 0
        THEN [m EXCEPT !.market_position = "None",
                       !.market_position_targets = NoTargets,
                       !.calls = Append(@, info)]
        ELSE IF g.close
        THEN [m EXCEPT !.market_position = "None",
                       !.market_position_entry_price = 0,
                       !.market_position_targets = NoTargets,
                       !.amt = 0,
                       !.calls = Append(Append(@, info), close)]
        ELSE [m EXCEPT !.calls = Append(Append(@, info), close)]

\* MarketPositionManager.check_market_position_tp_sl
CheckMarketPositionTpSl(m, current_price) ==
    LET targets == m.market_position_targets
    IN  IF m.market_position = "None" \/ targets = NoTargets THEN "None"
        ELSE IF /\ targets.tp_price # 0
                /\ \/ targets.side = "BUY" /\ 100 * current_price >= targets.tp_price
                   \/ targets.side = "SELL" /\ 100 * current_price <= targets.tp_price
        THEN "TAKE_PROFIT"
        ELSE IF /\ targets.sl_price # 0
                /\ \/ targets.side = "BUY" /\ 100 * current_price <= targets.sl_price
                   \/ targets.side = "SELL" /\ 100 * current_price >= targets.sl_price
        THEN "STOP_LOSS"
        ELSE "None"

\* mutant: one reopen more than the limit is let through
CanReopenMarketPosition_OffByOne(m, cfg) ==
    IF cfg.maxMarketPositionReopens = "unlimited" THEN TRUE
    ELSE IF ParseInt(cfg.maxMarketPositionReopens) = -1 THEN TRUE
    ELSE ~(m.market_position_reopens > ParseInt(cfg.maxMarketPositionReopens))

\* MarketPositionManager._can_reopen_market_position
CanReopenMarketPosition(m, cfg) ==
    IF cfg.maxMarketPositionReopens = "unlimited" THEN TRUE
    ELSE IF ParseInt(cfg.maxMarketPositionReopens) = -1 THEN TRUE
    ELSE ~(m.market_position_reopens >= ParseInt(cfg.maxMarketPositionReopens))

\* MarketPositionManager.handle_market_position_tp_sl; g.info1: its own
\* get_position_information answered, g.open: create_order answered
HandleMarketPositionTpSl(m, cfg, current_price, g) ==
    LET info1 == [call |-> "get_position_information", ok |-> g.info1]
        asked == [m EXCEPT !.calls = Append(@, info1)]
    IN  IF m.market_position = "None" THEN m
        ELSE IF ~CanReopenMarketPosition(m, cfg) THEN CloseMarketPosition(m, g)
        ELSE IF m.last_analysis_result # NoResult
                /\ m.last_analysis_result.momentum = "NEUTRAL"
        THEN CloseMarketPosition(m, g)
        ELSE IF ~g.info1 \/ m.amt = 0 THEN asked
        ELSE LET reopen_side == IF m.amt > 0 THEN "BUY" ELSE "SELL"
                 closed      == CloseMarketPosition(asked, g)
                 counted     == [closed EXCEPT !.market_position_reopens = @ + 1]
             IN  OpenMarketPosition(counted, cfg, reopen_side, current_price, g.open)

\* mutant: the new side is opened without closing the position held
ApplyAnalysis_NoClose(m, cfg, current_price, result, time, g) ==
    LET timed  == [m EXCEPT !.last_analysis_time = time]
        d      == DetermineAction(timed, cfg, result)
        reset  == [d.m EXCEPT !.market_position_reopens = 0]
    IN  [action |-> d.action,
         determined |-> d.m,
         m |-> IF d.action = "OPEN_LONG"
               THEN OpenMarketPosition(reset, cfg, "BUY", current_price, g.open)
               ELSE IF d.action = "OPEN_SHORT"
               THEN OpenMarketPosition(reset, cfg, "SELL", current_price, g.open)
               ELSE IF d.action = "CLOSE" THEN CloseMarketPosition(reset, g)
               ELSE d.m]

\* the part of process_analysis after a successful analysis, at time `time`
ApplyAnalysis(m, cfg, current_price, result, time, g) ==
    LET timed  == [m EXCEPT !.last_analysis_time = time]
        d      == DetermineAction(timed, cfg, result)
        closed == CloseMarketPosition(d.m, g)
        reset  == [closed EXCEPT !.market_position_reopens = 0]
    IN  [action |-> d.action,
         determined |-> d.m,
         m |-> IF d.action = "OPEN_LONG"
               THEN OpenMarketPosition(reset, cfg, "BUY", current_price, g.open)
               ELSE IF d.action = "OPEN_SHORT"
               THEN OpenMarketPosition(reset, cfg, "SELL", current_price, g.open)
               ELSE IF d.action = "CLOSE" THEN reset
               ELSE d.m]

MarketInitState ==
    /\ manager = NewManager
    /\ now = 0
    /\ mpm_call = [op |-> "none"]

\* the answers of the gateway to the calls of one method
GatewayAnswers == [info1 : BOOLEAN, info : BOOLEAN, close : BOOLEAN, open : BOOLEAN]

MaxReopenCount == 2

\* a market order that would take the position beyond MaxPositionAmt is
\* refused, and the reopens counter is followed up to MaxReopenCount
WithinBounds(m) ==
    /\ m.amt \in -MaxPositionAmt..MaxPositionAmt
    /\ m.market_position_reopens <= MaxReopenCount

\* what one run of the analyzer can come to: a result on stdout, or one of
\* the failures run_volatility_detector_analysis tells apart
AttemptKinds ==
    {"ok", "timeout", "nonzero_exit", "empty_output", "malformed_json", "error_payload"}

\* mutant: an error payload is taken for a result
AttemptSucceeds_ErrorPayloadPasses(outcome) == outcome.kind \in {"ok", "error_payload"}

\* the attempt returns a result: return code 0, output not empty, JSON that
\* parses and has no 'error' key, no timeout
AttemptSucceeds(outcome) == outcome.kind = "ok"

\* the for loop of run_volatility_detector_analysis from attempt on;
\* outcomes[i] is what the i-th run of the analyzer comes to
RECURSIVE RunVolatilityDetectorAnalysis(_, _, _)
RunVolatilityDetectorAnalysis(outcomes, attempt, max_retries) ==
    IF attempt > max_retries
    THEN [attempts |-> attempt - 1, success |-> FALSE, result |-> NoResult]
    ELSE IF AttemptSucceeds(outcomes[attempt])
    THEN [attempts |-> attempt, success |-> TRUE, result |-> outcomes[attempt].result]
    ELSE RunVolatilityDetectorAnalysis(outcomes, attempt + 1, max_retries)

\* MarketPositionManager.process_analysis; outcomes: what the runs of the
\* analyzer come to, one after the other
\* the open of the signal last analysed was refused by the gateway and the
\* signal has not changed since
OpenFailed == "open_failed" \in DOMAIN mpm_call /\ mpm_call.open_failed

\* no call of the manager is under way
NoManagerCall == IF OpenFailed THEN [op |-> "none", open_failed |-> TRUE] ELSE [op |-> "none"]

ProcessAnalysis(current_price, outcomes, g) ==
    LET m       == [manager EXCEPT !.calls = <<>>]
        runs    == config.enableMarketPositionLogic /\ ShouldRunAnalysis(m, config, now)
        run     == RunVolatilityDetectorAnalysis(outcomes, 1,
                                                 config.volatilityDetectorMaxRetries)
        success == runs /\ run.success
        applied == ApplyAnalysis(m, config, current_price, run.result, now, g)
        after   == IF success THEN applied.m ELSE m
    IN  /\ WithinBounds(after)
        /\ manager' = after
        /\ mpm_call' = [op |-> "process_analysis", before |-> m, price |-> current_price,
                        outcomes |-> IF runs THEN outcomes ELSE <<>>,
                        attempts |-> IF runs THEN run.attempts ELSE 0,
                        analysed |-> success,
                        result |-> IF success THEN run.result ELSE NoResult,
                        action |-> IF success THEN applied.action ELSE "None",
                        determined |-> IF success THEN applied.determined ELSE m,
                        trigger |-> "None",
                        open_failed_before |-> OpenFailed,
                        open_failed |->
                            IF success /\ applied.action \in {"OPEN_LONG", "OPEN_SHORT"}
                            THEN ~g.open
                            ELSE IF success /\ run.result # m.last_analysis_result
                            THEN FALSE
                            ELSE OpenFailed]
        /\ UNCHANGED <<config, gridVars, exit_check, reopenVars, now, botVars>>

\* Bot.run, the market-position step: with a market position and a TP/SL
\* trigger at the current price, handle_market_position_tp_sl is called
MarketPositionTpSl(current_price, g) ==
    LET m       == [manager EXCEPT !.calls = <<>>]
        trigger == CheckMarketPositionTpSl(m, current_price)
        after   == HandleMarketPositionTpSl(m, config, current_price, g)
    IN  /\ m.market_position # "None"
        /\ trigger # "None"
        /\ WithinBounds(after)
        /\ manager' = after
        /\ mpm_call' = [op |-> "handle_market_position_tp_sl", before |-> m,
                        price |-> current_price, outcomes |-> <<>>, attempts |-> 0,
                        analysed |-> FALSE,
                        result |-> NoResult, action |-> "None", trigger |-> trigger]
        /\ UNCHANGED <<config, gridVars, exit_check, reopenVars, now, botVars>>

MaxTime == 2

\* a minute passes between two calls
TimePasses ==
    /\ now < MaxTime
    /\ now' = now + 1
    /\ manager' = [manager EXCEPT !.calls = <<>>]
    /\ mpm_call' = NoManagerCall
    /\ UNCHANGED <<config, gridVars, exit_check, reopenVars, botVars>>

\* between two calls the position is closed on the exchange: by hand, by
\* an order of the grid or by liquidation
PositionChanges ==
    /\ manager.amt # 0
    /\ manager' = [manager EXCEPT !.amt = 0, !.calls = <<>>]
    /\ mpm_call' = NoManagerCall
    /\ UNCHANGED <<config, gridVars, exit_check, reopenVars, now, botVars>>

-----------------------------------------------------------------------------
(* Bot (bot.py).  One call of Bot.run is one action; its steps are        *)
(* operators on a record w that holds what the call reads and writes: the *)
(* Bot's fields, the reopen queue, the manager (with the position amount  *)
(* of the exchange), the grid, the entry price the exchange reports, the  *)
(* marker file, and the calls made so far, in order.                      *)

\* Bot.__init__; exited: sys.exit has ended the process
NewBot ==
    [is_grid_active |-> FALSE,
     open_positions |-> <<>>,
     position_counter |-> 0,
     position_targets |-> NoTargets,
     _last_position_amt |-> 0,
     _last_entry_price |-> 0,
     _last_position_side |-> "None",
     exited |-> FALSE]

NoReset == [done |-> FALSE]

NoSeen == [done |-> FALSE]

BotInitState ==
    /\ bot = NewBot
    /\ close_now = FALSE
    /\ avg_price = 0
    /\ tick = [op |-> "none"]

\* Where a step names a value more than once, the value is bound by
\* CHOOSE r \in {F(x) : x \in {v}} : TRUE, which works v out once.

\* what Bot.run starts from
World ==
    [bot |-> bot,
     queue |-> positions_to_reopen,
     m |-> [manager EXCEPT !.calls = <<>>],
     levels |-> grid_levels, width |-> grid_width, center |-> grid_center_price,
     avg |-> avg_price,
     marker |-> close_now,
     price |-> 0,
     events |-> <<>>,
     grid_orders |-> <<>>,
     exit_reason |-> NoReason,
     reset |-> NoReset,
     seen |-> NoSeen]

\* a call is made and answered or not.  The answer is followed where the
\* code acts on it or the position depends on it; the answers to
\* cancel_all_open_orders and to the orders of the grid, which Bot.run
\* drops, are not drawn
Answered(w, name, ok) == [w EXCEPT !.events = Append(@, [call |-> name, ok |-> ok])]

Call(w, name) == Answered(w, name, TRUE)

\* the gateway calls a manager method made
CallsOf(calls) == [i \in 1..Len(calls) |-> [call |-> calls[i].call, ok |-> calls[i].ok]]

\* the entry price the exchange reports after a manager method that was
\* called at current_price: a market order that went through gives the
\* position its price
AvgAfter(m, avg, current_price) ==
    IF m.amt = 0 THEN 0
    ELSE IF \E i \in 1..Len(m.calls) : m.calls[i].call = "create_order" /\ m.calls[i].ok
    THEN current_price
    ELSE avg

\* [position_info] if position_info and float(positionAmt) != 0 else [];
\* ok: get_position_information answered
OpenPositionsOf(w, ok) ==
    IF ok /\ w.m.amt # 0
    THEN <<[positionAmt |-> w.m.amt, entryPrice |-> w.avg]>>
    ELSE <<>>

\* Exchange.close_all_positions: the position is read and, when there is
\* one, a reduce-only market order of its whole amount is placed; ok: both
\* calls answered
CloseAllPositions(w, ok) ==
    [w EXCEPT !.m.amt = IF ok THEN 0 ELSE @,
              !.avg = IF ok THEN 0 ELSE @,
              !.events = Append(@, [call |-> "close_all_positions", ok |-> ok])]

\* Exchange.close_position_market of the whole amount; ok: the order answered
ClosePositionMarket(w, ok) ==
    [w EXCEPT !.m.amt = IF ok THEN 0 ELSE @,
              !.avg = IF ok THEN 0 ELSE @,
              !.events = Append(@, [call |-> "close_position_market", ok |-> ok])]

\* os.remove(".close_now")
RemoveMarker(w) == [Call(w, "os.remove") EXCEPT !.marker = FALSE]

\* Bot.run, the manual shutdown; info and close_all: whether the gateway
\* answered the position query and the close
Shutdown(w, info, close_all) ==
    LET cancelled == Call(w, "cancel_all_open_orders")
        asked     == Answered(cancelled, "get_position_information", info)
        seen      == [asked EXCEPT !.bot.open_positions = OpenPositionsOf(asked, info)]
        closed    == IF seen.bot.open_positions # <<>>
                     THEN CloseAllPositions(seen, close_all)
                     ELSE seen
        removed   == RemoveMarker(closed)
    IN  [Call(removed, "sys.exit") EXCEPT !.bot.exited = TRUE]

\* mutant: a tick without a price still drains the reopen queue
NoPrice_Drains(w) == [Answered(w, "get_market_price", FALSE) EXCEPT !.queue = <<>>]

\* Bot.run when get_market_price returns nothing: return
NoPrice(w) == Answered(w, "get_market_price", FALSE)

\* Bot.run, the market position step: check_market_position_tp_sl and, on a
\* trigger, handle_market_position_tp_sl
MarketTpSlStep(w, cfg, current_price, g) ==
    LET Handled(after) ==
            [w EXCEPT !.m = after,
                      !.avg = AvgAfter(after, w.avg, current_price),
                      !.events = Append(@, [call |-> "handle_market_position_tp_sl",
                                            ok |-> TRUE])
                                    \o CallsOf(after.calls)]
    IN  IF w.m.market_position # "None" /\ CheckMarketPositionTpSl(w.m, current_price) # "None"
        THEN (CHOOSE r \in {Handled(x) : x \in
                {HandleMarketPositionTpSl([w.m EXCEPT !.calls = <<>>], cfg,
                                                  current_price, g)}} : TRUE)
        ELSE w

\* mutant: the drain does not look at enablePositionReopen
DrainStep_IgnoresFlag(w, cfg, results) ==
    LET Drained(done) ==
            [w EXCEPT !.queue = done.queue,
                      !.events = Append(@, [call |-> "process_reopen_queue", ok |-> TRUE])
                                    \o [i \in 1..Len(done.orders) |->
                                           [call |-> "create_order", ok |-> results[i]]]]
    IN  IF w.queue = <<>>
        THEN Call(w, "process_reopen_queue")
        ELSE (CHOOSE r \in {Drained(x) : x \in
                {QueueLoop(w.queue, 1, [queue |-> w.queue, orders |-> <<>>],
                                   results)}} : TRUE)

\* Bot.run, the drain: process_reopen_queue, results[i] is whether
\* create_order answered for the i-th entry
DrainStep(w, cfg, results) ==
    LET Drained(done) ==
            [w EXCEPT !.queue = done.queue,
                      !.events = Append(@, [call |-> "process_reopen_queue", ok |-> TRUE])
                                    \o [i \in 1..Len(done.orders) |->
                                           [call |-> "create_order", ok |-> results[i]]]]
    IN  IF ~cfg.enablePositionReopen \/ w.queue = <<>>
        THEN Call(w, "process_reopen_queue")
        ELSE (CHOOSE r \in {Drained(x) : x \in
                {QueueLoop(w.queue, 1, [queue |-> w.queue, orders |-> <<>>],
                                   results)}} : TRUE)

\* Bot._find_next_grid_level, in hundredths, 0 for None; the levels are
\* in rising order as generate leaves them
\* mutant: a level equal to the entry price counts as the next one
RECURSIVE NextLevelAbove_AtOrAbove(_, _, _)
NextLevelAbove_AtOrAbove(levels, i, entry_price) ==
    IF i > Len(levels) THEN 0
    ELSE IF Tenths(levels[i]) >= 10 * entry_price THEN 10 * Tenths(levels[i])
    ELSE NextLevelAbove_AtOrAbove(levels, i + 1, entry_price)

RECURSIVE NextLevelAbove(_, _, _)
NextLevelAbove(levels, i, entry_price) ==
    IF i > Len(levels) THEN 0
    ELSE IF Tenths(levels[i]) > 10 * entry_price THEN 10 * Tenths(levels[i])
    ELSE NextLevelAbove(levels, i + 1, entry_price)

RECURSIVE NextLevelBelow(_, _, _)
NextLevelBelow(levels, i, entry_price) ==
    IF i < 1 THEN 0
    ELSE IF Tenths(levels[i]) < 10 * entry_price THEN 10 * Tenths(levels[i])
    ELSE NextLevelBelow(levels, i - 1, entry_price)

FindNextGridLevel(cfg, levels, entry_price) ==
    IF cfg.mode = "long" THEN NextLevelAbove(levels, 1, entry_price)
    ELSE IF cfg.mode = "short" THEN NextLevelBelow(levels, Len(levels), entry_price)
    ELSE 0

\* Bot.calculate_tp_sl_targets; prices in hundredths, 0 for a key the dict
\* does not have
CalculateTpSlTargets(cfg, levels, entry_price, position_side) ==
    [entry_price |-> entry_price,
     position_side |-> position_side,
     sl_price |-> IF cfg.stopLossPercent = 0 THEN 0
                  ELSE IF cfg.mode = "long" THEN entry_price * (100 - cfg.stopLossPercent)
                  ELSE IF cfg.mode = "short" THEN entry_price * (100 + cfg.stopLossPercent)
                  ELSE 0,
     tp_price |-> IF cfg.tpMode = "PERCENTAGE"
                  THEN (IF cfg.takeProfitPercent = 0 THEN 0
                        ELSE IF cfg.mode = "long"
                        THEN entry_price * (100 + cfg.takeProfitPercent)
                        ELSE IF cfg.mode = "short"
                        THEN entry_price * (100 - cfg.takeProfitPercent)
                        ELSE 0)
                  ELSE IF cfg.tpMode = "GRID_RANGE"
                  THEN FindNextGridLevel(cfg, levels, entry_price)
                  ELSE 0]

\* Bot.check_tp_sl_targets
CheckTpSlTargets(b, cfg, current_price) ==
    LET targets == b.position_targets
    IN  IF targets = NoTargets THEN "None"
        ELSE IF /\ targets.tp_price # 0
                /\ \/ cfg.mode = "long" /\ 100 * current_price >= targets.tp_price
                   \/ cfg.mode = "short" /\ 100 * current_price <= targets.tp_price
        THEN "TAKE_PROFIT"
        ELSE IF /\ targets.sl_price # 0
                /\ \/ cfg.mode = "long" /\ 100 * current_price <= targets.sl_price
                   \/ cfg.mode = "short" /\ 100 * current_price >= targets.sl_price
        THEN "STOP_LOSS"
        ELSE "None"

\* mutant: every tick that finds a position counts it
IsNewPosition_EveryTick(b) == TRUE

\* not hasattr(self, '_last_position_amt') or self._last_position_amt == 0
IsNewPosition(b) == b._last_position_amt = 0

\* mutant: the entry reopens the side that closed
ReopenSideOf_SameSide(last) == IF last > 0 THEN "BUY" ELSE "SELL"

\* reopen_side: SELL after a long, BUY after a short
ReopenSideOf(last) == IF last > 0 THEN "SELL" ELSE "BUY"

\* what the position step met and left: whether the gateway answered the
\* query, the amount and the entry price the exchange held, the amount
\* seen last and the queue before the step, and the Bot's fields and the
\* queue after it
SeenBy(w, ok, after) ==
    [done |-> TRUE, ok |-> ok, amt |-> w.m.amt, entry |-> w.avg,
     last |-> w.bot._last_position_amt, queue_before |-> w.queue,
     bot |-> after.bot, queue |-> after.queue]

\* Bot.run, the grid is active: the position is read and followed.  A new
\* position is counted and given targets; a position that is gone (or not
\* reported) is queued for reopening and forgotten
FollowPosition(w, cfg, ok) ==
    LET asked == Answered(w, "get_position_information", ok)
        open  == OpenPositionsOf(asked, ok)
        b     == asked.bot
    IN  IF open # <<>>
        THEN LET amt   == open[1].positionAmt
                 entry == open[1].entryPrice
                 side  == IF amt > 0 THEN "LONG"
                          ELSE IF cfg.dualSidePosition THEN "SHORT" ELSE "BOTH"
                 new   == IsNewPosition(b)
             IN  [asked EXCEPT !.bot =
                     [b EXCEPT !.open_positions = open,
                               !.position_counter = IF new THEN @ + 1 ELSE @,
                               !.position_targets =
                                   IF new
                                   THEN CalculateTpSlTargets(cfg, asked.levels, entry, side)
                                   ELSE @,
                               !._last_entry_price = IF new THEN entry ELSE @,
                               !._last_position_side = IF new THEN side ELSE @,
                               !._last_position_amt = amt]]
        ELSE LET closure == b._last_position_amt # 0 /\ cfg.enablePositionReopen
                 last    == b._last_position_amt
                 data    == PositionData(DecOfFloat(b._last_entry_price),
                                         ReopenSideOf(last),
                                         IF last > 0 THEN last ELSE -last,
                                         IF last > 0 THEN "1" ELSE "0")
             IN  [asked EXCEPT !.queue = IF closure THEN AppendPosition(@, data) ELSE @,
                               !.events = IF closure
                                          THEN Append(@, [call |-> "add_position_to_reopen",
                                                          ok |-> TRUE])
                                          ELSE @,
                               !.bot = [b EXCEPT !.open_positions = <<>>,
                                                 !._last_position_amt = 0,
                                                 !._last_entry_price = 0,
                                                 !._last_position_side = "None",
                                                 !.position_targets = NoTargets]]

\* the position step with what it met and left put down
TrackPosition(w, cfg, ok) ==
    LET Seen(after) == [after EXCEPT !.seen = SeenBy(w, ok, after)]
    IN  (CHOOSE r \in {Seen(x) : x \in {FollowPosition(w, cfg, ok)}} : TRUE)

\* Bot.run, the custom targets: on a trigger the position seen is closed at
\* market and the targets are dropped
TargetsStep(w, cfg, current_price, ok) ==
    IF CheckTpSlTargets(w.bot, cfg, current_price) # "None"
    THEN LET closed == IF w.bot.open_positions # <<>>
                       THEN ClosePositionMarket(w, ok) ELSE w
         IN  [closed EXCEPT !.bot.position_targets = NoTargets]
    ELSE w

\* position_reopen_manager.clear_reopen_queue()
ClearQueue(w) == [Call(w, "clear_reopen_queue") EXCEPT !.queue = <<>>]

\* the fields Bot.run resets with the grid
\* mutant: the reset keeps the entry price of the position it closed
ResetFields_KeepsEntryPrice(b) ==
    [b EXCEPT !.position_counter = 0,
              !._last_position_amt = 0,
              !._last_position_side = "None",
              !.is_grid_active = FALSE,
              !.position_targets = NoTargets]

\* mutant: the reset leaves the grid marked active
ResetFields_StaysActive(b) ==
    [b EXCEPT !.position_counter = 0,
              !._last_position_amt = 0,
              !._last_entry_price = 0,
              !._last_position_side = "None",
              !.position_targets = NoTargets]

ResetFields(b) ==
    [b EXCEPT !.position_counter = 0,
              !._last_position_amt = 0,
              !._last_entry_price = 0,
              !._last_position_side = "None",
              !.is_grid_active = FALSE,
              !.position_targets = NoTargets]

\* the reset of checked, as after leaves it: the queue and the position it
\* met, and the Bot's fields, the queue and the position right after it
AfterReset(checked, after) ==
    [done |-> TRUE, queue_before |-> checked.queue, amt_before |-> checked.m.amt,
     bot |-> after.bot, queue |-> after.queue, amt |-> after.m.amt]

\* the cancel, the close and the reset Bot.run makes on an exit reason and
\* on a momentum that stops a neutral-only grid
ResetGrid(w, close_all) ==
    LET cancelled == Call(w, "cancel_all_open_orders")
        closed    == IF w.bot.open_positions # <<>>
                     THEN CloseAllPositions(cancelled, close_all)
                     ELSE cancelled
        cleared   == ClearQueue(closed)
    IN  [cleared EXCEPT !.bot = ResetFields(@)]

\* Bot.run, the exit check: check_exit_conditions and, on a reason, the reset
ExitStep(w, cfg, current_price, close_all) ==
    LET b           == w.bot
        entry_price == IF b.open_positions # <<>> THEN b.open_positions[1].entryPrice ELSE 0
        Exit(exit_reason) ==
            LET checked == [Call(w, "check_exit_conditions") EXCEPT
                               !.exit_reason = exit_reason]
                Left(after) == [after EXCEPT !.reset = AfterReset(checked, after)]
            IN  IF exit_reason # NoReason
                THEN (CHOOSE r \in {Left(x) : x \in
                        {ResetGrid(checked, close_all)}} : TRUE)
                ELSE checked
    IN  (CHOOSE r \in {Exit(x) : x \in
            {CheckExitConditions(cfg, w.center, w.width, current_price,
                                     b.position_counter, entry_price)}} : TRUE)

\* Bot._calculate_quantity
CalculateQuantity(cfg, price) ==
    LET size == DecOfFloat(cfg.positionSize)
    IN  IF cfg.positionSizeType = "BASE" THEN size
        ELSE IF cfg.positionSizeType = "QUOTE"
        THEN (IF DGt(price, DecOfInt(0)) THEN DDiv(size, price) ELSE DecOfInt(0))
        ELSE DecOfInt(0)

\* if quantity <= 0: continue, which comes before round(quantity, 5)
QuantityPositive(quantity) == DGt(quantity, DecOfInt(0))

\* f"{level_price:.8f}": the level at eight places after the point; the
\* format does not raise
FormatPrice(level_price) == Quantize(level_price, 8).value

\* the side place_grid_orders takes for a level, "None" where it continues
SideAt(cfg, level_price, current_price) ==
    IF DLt(level_price, current_price) /\ cfg.mode \in {"long", "neutral"} THEN "BUY"
    ELSE IF DGt(level_price, current_price) /\ cfg.mode \in {"short", "neutral"} THEN "SELL"
    ELSE "None"

\* the for loop of Bot.place_grid_orders from level i on: the orders
\* submitted, and whether round(quantity, 5) raised and ended the loop
RECURSIVE PlaceGridOrders(_, _, _, _)
PlaceGridOrders(cfg, levels, i, current_price) ==
    IF i > Len(levels) THEN [orders |-> <<>>, raised |-> FALSE]
    ELSE LET level_price == levels[i]
             side == SideAt(cfg, level_price, DecOfFloat(current_price))
             Submit(rounded) ==
                 LET order == [order_type |-> "LIMIT", side |-> side,
                               price |-> FormatPrice(level_price),
                               quantity |-> rounded.value,
                               position_side |-> IF ~cfg.dualSidePosition THEN "BOTH"
                                                 ELSE IF side = "BUY" THEN "LONG"
                                                 ELSE "SHORT"]
                     Then(rest) == [orders |-> <<order>> \o rest.orders,
                                    raised |-> rest.raised]
                 IN  IF ~rounded.ok THEN [orders |-> <<>>, raised |-> TRUE]
                     ELSE (CHOOSE r \in {Then(x) : x \in
                             {PlaceGridOrders(cfg, levels, i + 1, current_price)}} : TRUE)
             Sized(quantity) ==
                 IF QuantityPositive(quantity)
                 THEN (CHOOSE r \in {Submit(x) : x \in {Quantize(quantity, 5)}} : TRUE)
                 ELSE PlaceGridOrders(cfg, levels, i + 1, current_price)
         IN  IF side = "None"
             THEN PlaceGridOrders(cfg, levels, i + 1, current_price)
             ELSE (CHOOSE r \in {Sized(x) : x \in
                     {CalculateQuantity(cfg, level_price)}} : TRUE)

\* the momentum of the last analysis keeps a neutral-only grid off
MomentumStopsGrid(w, cfg) ==
    /\ cfg.gridBotNeutralOnly
    /\ w.m.last_analysis_result # NoResult
    /\ w.m.last_analysis_result.momentum # "NEUTRAL"

\* Bot.run, no active grid: generate at the current price, place the
\* orders.  An exception out of place_grid_orders leaves run before
\* is_grid_active is set and is caught by main, which ends the loop
ActivateStep(w, cfg, current_price) ==
    LET Placed(levels) ==
            LET Active(placed) ==
                    [w EXCEPT !.center = DecOfFloat(current_price),
                              !.width = GridWidthOf(cfg),
                              !.levels = levels,
                              !.grid_orders = placed.orders,
                              !.bot.is_grid_active = ~placed.raised,
                              !.bot.exited = placed.raised,
                              !.events = ((@ \o <<[call |-> "generate", ok |-> TRUE],
                                                  [call |-> "place_grid_orders",
                                                   ok |-> ~placed.raised]>>)
                                             \o [i \in 1..Len(placed.orders) |->
                                                    [call |-> "create_order", ok |-> TRUE]])
                                            \o (IF placed.raised
                                                THEN <<[call |-> "InvalidOperation",
                                                        ok |-> FALSE]>>
                                                ELSE <<>>)]
            IN  (CHOOSE r \in {Active(x) : x \in
                    {PlaceGridOrders(cfg, levels, 1, current_price)}} : TRUE)
    IN  IF ~w.bot.is_grid_active /\ ~MomentumStopsGrid(w, cfg)
        THEN (CHOOSE r \in {Placed(x) : x \in {GridLevelsOf(cfg, current_price)}} : TRUE)
        ELSE w

\* Bot.run, the neutral-only grid is taken down on another momentum
DeactivateStep(w, cfg, close_all) ==
    LET Left(after) == [after EXCEPT !.reset = AfterReset(w, after)]
    IN  IF ~w.bot.exited /\ w.bot.is_grid_active /\ MomentumStopsGrid(w, cfg)
        THEN (CHOOSE r \in {Left(x) : x \in {ResetGrid(w, close_all)}} : TRUE)
        ELSE w

\* Bot.run, the last step: process_analysis at time `time`
AnalysisStep(w, cfg, current_price, time, outcomes, g) ==
    LET m    == [w.m EXCEPT !.calls = <<>>]
        runs == cfg.enableMarketPositionLogic /\ ShouldRunAnalysis(m, cfg, time)
        Analysed(run) ==
            LET Applied(after) ==
                    [w EXCEPT !.m = after,
                              !.avg = AvgAfter(after, w.avg, current_price),
                              !.events = (Append(@, [call |-> "process_analysis", ok |-> TRUE])
                                             \o [i \in 1..run.attempts |->
                                                    [call |-> "analyzer",
                                                     ok |-> AttemptSucceeds(outcomes[i])]])
                                             \o CallsOf(after.calls)]
            IN  (CHOOSE r \in {Applied(x) : x \in {IF runs /\ run.success
                            THEN ApplyAnalysis(m, cfg, current_price, run.result, time, g).m
                            ELSE m}} : TRUE)
    IN  IF w.bot.exited THEN w
        ELSE (CHOOSE r \in {Analysed(x) : x \in {IF runs
                     THEN RunVolatilityDetectorAnalysis(outcomes, 1,
                                                        cfg.volatilityDetectorMaxRetries)
                     ELSE [attempts |-> 0, success |-> FALSE, result |-> NoResult]}} : TRUE)

\* the answers to draw for a gateway call: a failure is drawn where it matters
Answers(matters) == IF matters THEN BOOLEAN ELSE {TRUE}

\* the gateway answers every call of a manager method, or none
BotGatewayAnswers == {g \in GatewayAnswers : \A j, k \in DOMAIN g : g[j] = g[k]}

\* the answers handle_market_position_tp_sl needs from manager m
HandleAnswersOf(m, cfg) ==
    {g \in BotGatewayAnswers : m.market_position # "None" \/ g.info}

\* the answers process_analysis needs from manager m for its action
AnalysisAnswersOf(m, action) ==
    {g \in BotGatewayAnswers : action \in {"OPEN_LONG", "OPEN_SHORT", "CLOSE"} \/ g.info}

\* the (trend, momentum) pairs the analyzer reports to the Bot
BotResults ==
    {[trend |-> "UPTREND", momentum |-> "OVERBOUGHT"],
     [trend |-> "UPTREND", momentum |-> "NEUTRAL"]}

\* what the runs of the analyzer come to in one process_analysis: a result
\* at the first run, or timeouts to the last retry
AnalyzerRuns(m, cfg, time) ==
    IF cfg.enableMarketPositionLogic /\ ShouldRunAnalysis(m, cfg, time)
    THEN {<<[kind |-> "ok", result |-> r]>> : r \in BotResults}
             \cup {[i \in 1..cfg.volatilityDetectorMaxRetries |->
                       [kind |-> "timeout", result |-> NoResult]]}
    ELSE {<<>>}

\* the outcomes of the last step of Bot.run over the analyzer's runs and the
\* gateway's answers
AnalysisRuns(w, cfg, current_price, time) ==
    UNION {{AnalysisStep(w, cfg, current_price, time, outcomes, g) :
               g \in AnalysisAnswersOf(w.m,
                        IF outcomes # <<>> /\ AttemptSucceeds(outcomes[1])
                        THEN DetermineAction(w.m, cfg, outcomes[1].result).action
                        ELSE "None")} :
           outcomes \in AnalyzerRuns(w.m, cfg, time)}

\* the outcomes of the steps Bot.run takes while the grid is active
GridActiveRuns(w, cfg, current_price) ==
    IF ~w.bot.is_grid_active THEN {w}
    ELSE LET tracked  == {TrackPosition(w, cfg, ok) : ok \in Answers(w.m.amt # 0)}
             targeted == UNION {{TargetsStep(x, cfg, current_price, ok) :
                                    ok \in Answers(x.bot.open_positions # <<>>)} :
                                x \in tracked}
         IN  UNION {{ExitStep(x, cfg, current_price, close_all) :
                        close_all \in Answers(x.m.amt # 0 /\ x.bot.open_positions # <<>>)} :
                    x \in targeted}

\* mutant: the position and the exit conditions are checked before the
\* reopen queue is drained
PricedRuns_ExitBeforeDrain(w, cfg, current_price, time) ==
    LET priced  == [Call(w, "get_market_price") EXCEPT !.price = current_price]
        handled == {MarketTpSlStep(priced, cfg, current_price, g) :
                       g \in HandleAnswersOf(priced.m, cfg)}
        checked == UNION {GridActiveRuns(x, cfg, current_price) : x \in handled}
        drained == UNION {{DrainStep(x, cfg, results) :
                              results \in [1..ReopenAttempts(cfg, x.queue) -> BOOLEAN]} :
                          x \in checked}
        active  == {ActivateStep(x, cfg, current_price) : x \in drained}
        stopped == UNION {{DeactivateStep(x, cfg, close_all) :
                              close_all \in Answers(x.m.amt # 0 /\ x.bot.open_positions # <<>>)} :
                          x \in active}
    IN  UNION {AnalysisRuns(x, cfg, current_price, time) : x \in stopped}

\* the outcomes of Bot.run with a price, after the shutdown check
PricedRuns(w, cfg, current_price, time) ==
    LET priced  == [Call(w, "get_market_price") EXCEPT !.price = current_price]
        handled == {MarketTpSlStep(priced, cfg, current_price, g) :
                       g \in HandleAnswersOf(priced.m, cfg)}
        drained == UNION {{DrainStep(x, cfg, results) :
                              results \in [1..ReopenAttempts(cfg, x.queue) -> BOOLEAN]} :
                          x \in handled}
        checked == UNION {GridActiveRuns(x, cfg, current_price) : x \in drained}
        active  == {ActivateStep(x, cfg, current_price) : x \in checked}
        stopped == UNION {{DeactivateStep(x, cfg, close_all) :
                              close_all \in Answers(x.m.amt # 0 /\ x.bot.open_positions # <<>>)} :
                          x \in active}
    IN  UNION {AnalysisRuns(x, cfg, current_price, time) : x \in stopped}

-----------------------------------------------------------------------------
(* Bounds and input sets *)

MaxDivisions == 7
MaxPositionCounter == 2

\* centres the grid is generated at
Centers == {500, 1000, 1005, 2000}

GridRanges == {<<4, 6>>, <<990, 1010>>, <<900, 1100>>}

\* prices around every threshold of the risk configurations below
ExitPrices ==
    {699, 700, 701, 899, 900, 901, 949, 950, 951, 1000,
     1049, 1050, 1051, 1099, 1100, 1101, 1299, 1300, 1301}

EntryPrices == {0, 1000}

NoCall == [called |-> FALSE]

GridInitState ==
    /\ grid_levels = <<>>
    /\ grid_width = DecOfInt(0)
    /\ grid_center_price = DecOfInt(0)

-----------------------------------------------------------------------------
(* SpecGrid: Grid.generate over grid configurations and centre prices *)

InitGrid ==
    /\ \E r \in GridRanges, d \in 1..MaxDivisions :
           config = [BaseConfig EXCEPT !.startPrice = r[1], !.endPrice = r[2], !.gridSize = d]
    /\ GridInitState
    /\ exit_check = NoCall
    /\ ReopenInitState
    /\ MarketInitState
    /\ BotInitState

NextGrid == \E c \in Centers : Generate(c)

SpecGrid == InitGrid /\ [][NextGrid]_vars

-----------------------------------------------------------------------------
(* SpecRisk: check_exit_conditions on a generated grid, as Bot.run calls it *)

RiskConfigs ==
    {[BaseConfig EXCEPT !.mode = m, !.stopLossPercent = sl, !.takeProfitPercent = tp,
                        !.tpMode = tm, !.enableRangeExitRule = re,
                        !.rangeExitThresholdPercent = th,
                        !.maxConsecutiveGridPositions = mx] :
        m \in {"long", "short", "neutral"}, sl \in {0, 5}, tp \in {0, 10},
        tm \in {"PERCENTAGE", "GRID_RANGE"}, re \in BOOLEAN, th \in {100},
        mx \in {"unlimited", "2"}}

InitRisk ==
    /\ config \in RiskConfigs
    /\ GridInitState
    /\ exit_check = NoCall
    /\ ReopenInitState
    /\ MarketInitState
    /\ BotInitState

\* bot.py generates the grid while it is not active
GenerateAtCenter == grid_levels = <<>> /\ Generate(1000)

\* bot.py calls check_exit_conditions only while the grid is active, that is
\* after generate
CallCheckExitConditions ==
    /\ grid_levels # <<>>
    /\ ~exit_check.called
    /\ \E p \in ExitPrices, n \in 0..MaxPositionCounter, e \in EntryPrices :
           exit_check' = [called |-> TRUE, price |-> p, position_counter |-> n,
                          entry_price |-> e,
                          reason |-> CheckExitConditions(config, grid_center_price,
                                                         grid_width, p, n, e)]
    /\ UNCHANGED <<config, gridVars, reopenVars, marketVars, botVars>>

NextRisk == GenerateAtCenter \/ CallCheckExitConditions

SpecRisk == InitRisk /\ [][NextRisk]_vars
-----------------------------------------------------------------------------
(* SpecReopen: the reopen queue under any order of its calls, the gateway *)
(* answering or refusing each create_order                                *)

ReopenLevels == {1000, 1050}

\* bot.py queues a SELL in slot '1' after a closed long, a BUY in slot '0'
\* after a closed short
ReopenSides == {<<"SELL", "1">>, <<"BUY", "0">>}

InitReopen ==
    /\ \E b \in BOOLEAN : config = [BaseConfig EXCEPT !.enablePositionReopen = b]
    /\ GridInitState
    /\ exit_check = NoCall
    /\ ReopenInitState
    /\ MarketInitState
    /\ BotInitState

Enqueue ==
    \E l \in ReopenLevels, sd \in ReopenSides :
        AddPositionToReopen(DecOfFloat(l), sd[1], 1, sd[2])

Drain ==
    \E results \in [1..ReopenAttempts(config, positions_to_reopen) -> BOOLEAN] :
        ProcessReopenQueue(results)

NextReopen == Enqueue \/ Drain \/ ClearReopenQueue

SpecReopen == InitReopen /\ [][NextReopen]_vars

\* a process_reopen_queue call in which the gateway answers every create_order
DrainAnswered ==
    ProcessReopenQueue([i \in 1..ReopenAttempts(config, positions_to_reopen) |-> TRUE])

\* Bot.run queues an entry only with reopening enabled (bot.py 135)
InitReopenLive == InitReopen /\ config.enablePositionReopen

\* a long or a short entered at 1000 has closed
EnqueueClosed ==
    \E sd \in ReopenSides : AddPositionToReopen(DecOfFloat(1000), sd[1], 1, sd[2])

NextReopenLive == EnqueueClosed \/ Drain \/ ClearReopenQueue

\* main.py calls bot.run() every ten seconds for ever and each tick with a
\* price calls process_reopen_queue (bot.py 109); the gateway does not refuse
\* for ever
SpecReopenLive ==
    InitReopenLive /\ [][NextReopenLive]_vars /\ WF_vars(DrainAnswered)

-----------------------------------------------------------------------------
(* SpecMarket: the MarketPositionManager under any order of analyses,     *)
(* TP/SL triggers, gateway failures and position changes on the exchange. *)
(* The prices keep clear of the target prices, where the float products   *)
(* of the source and the exact products here could differ.                *)

MarketPrices == {1000, 1100}

AnalysisResults ==
    [trend : {"UPTREND", "DOWNTREND"}, momentum : {"OVERSOLD", "OVERBOUGHT", "NEUTRAL"}]
        \cup {[trend |-> "None", momentum |-> "None"]}

MarketConfigs ==
    {[BaseConfig EXCEPT !.stopLossPercent = 5, !.takeProfitPercent = 5,
                        !.maxMarketPositionReopens = mr,
                        !.neutralMomentumAction = na] :
        mr \in {"unlimited", "0", "1", "2"}, na \in {"stop", "continue"}}

InitMarket ==
    /\ config \in MarketConfigs
    /\ GridInitState
    /\ exit_check = NoCall
    /\ ReopenInitState
    /\ MarketInitState
    /\ BotInitState

\* the gateway answers to draw for a call that makes the marked calls; the
\* answer of a call that is not made is not drawn
AnswersTo(info1, info, close, open) ==
    {g \in GatewayAnswers : /\ info1 \/ g.info1
                            /\ info \/ g.info
                            /\ close \/ g.close
                            /\ open \/ g.open}

\* the answers process_analysis needs for its action
AnalysisAnswers(action) ==
    LET closes == action \in {"OPEN_LONG", "OPEN_SHORT", "CLOSE"}
                      /\ manager.market_position # "None"
    IN  AnswersTo(FALSE, closes, closes /\ manager.amt # 0,
                  action \in {"OPEN_LONG", "OPEN_SHORT"})

\* failures runs of the analyzer that fail in the way given, then, short of
\* max_retries failures, one that returns result
FailuresThen(failures, kind, result) ==
    [i \in 1..failures |-> [kind |-> kind, result |-> NoResult]]
        \o (IF failures < config.volatilityDetectorMaxRetries
            THEN <<[kind |-> "ok", result |-> result]>> ELSE <<>>)

\* the answers to draw for a call that does not get to a gateway call
AllAnswer == CHOOSE g \in GatewayAnswers : \A k \in DOMAIN g : g[k]

Analyse ==
    \/ \E p \in MarketPrices, f \in 0..(config.volatilityDetectorMaxRetries - 1),
          r \in AnalysisResults :
           \E g \in AnalysisAnswers(DetermineAction(manager, config, r).action) :
               /\ config.enableMarketPositionLogic
               /\ ShouldRunAnalysis(manager, config, now)
               /\ ProcessAnalysis(p, FailuresThen(f, "error_payload", r), g)
    \/ \E p \in MarketPrices :
           /\ config.enableMarketPositionLogic
           /\ ShouldRunAnalysis(manager, config, now)
           /\ ProcessAnalysis(p, FailuresThen(config.volatilityDetectorMaxRetries,
                                              "error_payload", NoResult), AllAnswer)
    \/ \E p \in MarketPrices :
           /\ ~(config.enableMarketPositionLogic /\ ShouldRunAnalysis(manager, config, now))
           /\ ProcessAnalysis(p, <<>>, AllAnswer)

\* the answers handle_market_position_tp_sl needs
TpSlAnswers ==
    LET reopens == /\ CanReopenMarketPosition(manager, config)
                   /\ manager.last_analysis_result.momentum # "NEUTRAL"
    IN  AnswersTo(reopens, manager.amt # 0, manager.amt # 0, reopens /\ manager.amt # 0)

TpSlTrigger == \E p \in MarketPrices, g \in TpSlAnswers : MarketPositionTpSl(p, g)

NextMarket == Analyse \/ TpSlTrigger \/ TimePasses \/ PositionChanges

SpecMarket == InitMarket /\ [][NextMarket]_vars

-----------------------------------------------------------------------------
(* SpecAnalysis: process_analysis over every (trend, momentum) the         *)
(* analyzer can report and every way its runs can fail.                    *)

AllPairs ==
    [trend : {"UPTREND", "DOWNTREND", "None"},
     momentum : {"OVERSOLD", "OVERBOUGHT", "NEUTRAL", "None"}]

RetriedPairs ==
    {[trend |-> "UPTREND", momentum |-> "OVERBOUGHT"],
     [trend |-> "DOWNTREND", momentum |-> "NEUTRAL"]}

MaxRetries == 2

AnalysisConfigs ==
    {[BaseConfig EXCEPT !.stopLossPercent = 5, !.takeProfitPercent = 5,
                        !.neutralMomentumAction = na,
                        !.enableMarketPositionLogic = en,
                        !.volatilityDetectorMaxRetries = mx] :
        na \in {"stop", "continue"}, en \in BOOLEAN, mx \in 0..MaxRetries}

InitAnalysis ==
    /\ config \in AnalysisConfigs
    /\ GridInitState
    /\ exit_check = NoCall
    /\ ReopenInitState
    /\ MarketInitState
    /\ BotInitState

\* n runs of the analyzer that fail: timeouts, but for at most one run that
\* fails in any other way
FailedRuns(n) ==
    {[i \in 1..n |-> [kind |-> IF i = j THEN k ELSE "timeout", result |-> NoResult]] :
        j \in 1..n, k \in AttemptKinds \ {"ok"}}
        \cup {[i \in 1..n |-> [kind |-> "timeout", result |-> NoResult]]}

AnalysisDue == config.enableMarketPositionLogic /\ ShouldRunAnalysis(manager, config, now)

\* the first run of the analyzer reports any pair
AnalyseAnyPair ==
    /\ AnalysisDue
    /\ config.volatilityDetectorMaxRetries >= 1
    /\ \E p \in MarketPrices, r \in AllPairs :
           \E g \in AnalysisAnswers(DetermineAction(manager, config, r).action) :
               ProcessAnalysis(p, <<[kind |-> "ok", result |-> r]>>, g)

\* what further runs of the analyzer would report
LaterRuns(n) ==
    [i \in 1..n |-> [kind |-> "ok", result |-> [trend |-> "DOWNTREND", momentum |-> "OVERSOLD"]]]

\* runs of the analyzer fail before one reports a pair; further runs would
\* report another pair
AnalyseAfterFailures ==
    /\ AnalysisDue
    /\ \E p \in MarketPrices, n \in 0..(config.volatilityDetectorMaxRetries - 1),
          r \in RetriedPairs :
           \E fs \in FailedRuns(n),
              g \in AnalysisAnswers(DetermineAction(manager, config, r).action) :
               ProcessAnalysis(p, fs \o <<[kind |-> "ok", result |-> r]>>
                                     \o LaterRuns(config.volatilityDetectorMaxRetries - n - 1),
                               g)

\* every run of the analyzer fails
AnalysisFails ==
    /\ AnalysisDue
    /\ \E p \in MarketPrices, fs \in FailedRuns(config.volatilityDetectorMaxRetries) :
           ProcessAnalysis(p, fs, AllAnswer)

\* process_analysis is called while disabled or before the interval is over
AnalysisNotDue ==
    /\ ~AnalysisDue
    /\ \E p \in MarketPrices : ProcessAnalysis(p, <<>>, AllAnswer)

NextAnalysis ==
    AnalyseAnyPair \/ AnalyseAfterFailures \/ AnalysisFails \/ AnalysisNotDue \/ TimePasses

SpecAnalysis == InitAnalysis /\ [][NextAnalysis]_vars

-----------------------------------------------------------------------------
(* SpecBot: the loop of main.py, Bot.run tick after tick against an        *)
(* exchange whose position changes between ticks and whose calls can fail. *)
(* The ticks are those of one analysis interval (main.py sleeps ten        *)
(* seconds between two ticks): the clock stands still, and the analysis is *)
(* due until it first succeeds.                                            *)

\* prices the gateway reports
BotPrices == {1000, 1200}

\* the outcomes of Bot.run: the shutdown check, the price, the steps
BotRuns(w, cfg, time) ==
    IF w.marker
    THEN UNION {{Shutdown(w, info, close_all) : close_all \in Answers(info /\ w.m.amt # 0)} :
                info \in Answers(w.m.amt # 0)}
    ELSE {NoPrice(w)} \cup UNION {PricedRuns(w, cfg, p, time) : p \in BotPrices}

MaxBotQueue == 1

\* main.py calls bot.run() again and again until sys.exit ends the process
Run ==
    /\ ~bot.exited
    /\ \E w \in BotRuns(World, config, now) :
           /\ Len(w.queue) <= MaxBotQueue
           /\ w.bot.position_counter <= MaxPositionCounter
           /\ WithinBounds(w.m)
           /\ bot' = w.bot
           /\ positions_to_reopen' = w.queue
           /\ manager' = [w.m EXCEPT !.calls = <<>>]
           /\ grid_levels' = w.levels
           /\ grid_width' = w.width
           /\ grid_center_price' = w.center
           /\ avg_price' = w.avg
           /\ close_now' = w.marker
           /\ tick' = [op |-> "run", marker |-> close_now, price |-> w.price,
                       events |-> w.events, exit_reason |-> w.exit_reason,
                       reset |-> w.reset, seen |-> w.seen,
                       grid_orders |-> w.grid_orders]
    /\ UNCHANGED <<config, exit_check, reopen_call, now, mpm_call>>

\* the operator puts the file ".close_now" in the working directory
MarkerAppears ==
    /\ ~close_now
    /\ ~bot.exited
    /\ close_now' = TRUE
    /\ tick' = [op |-> "none"]
    /\ UNCHANGED <<config, gridVars, exit_check, reopenVars, marketVars, bot, avg_price>>

\* prices an order of the grid or of the reopen queue is filled at
FillPrices == {1000}

\* between two ticks an order is filled and there is a position
OrderFills ==
    /\ manager.amt = 0
    /\ ~bot.exited
    /\ \E a \in {1, -1}, p \in FillPrices :
           /\ manager' = [manager EXCEPT !.amt = a]
           /\ avg_price' = p
    /\ tick' = [op |-> "none"]
    /\ UNCHANGED <<config, gridVars, exit_check, reopenVars, now, mpm_call, bot, close_now>>

\* between two ticks the position is closed on the exchange
PositionCloses ==
    /\ manager.amt # 0
    /\ ~bot.exited
    /\ manager' = [manager EXCEPT !.amt = 0]
    /\ avg_price' = 0
    /\ tick' = [op |-> "none"]
    /\ UNCHANGED <<config, gridVars, exit_check, reopenVars, now, mpm_call, bot, close_now>>

\* the grid on every momentum or on NEUTRAL only, with reopening; the grid
\* on every momentum without reopening; and orders of 100000 units each
BotConfigs ==
    {[BaseConfig EXCEPT !.gridSize = 2, !.rangeExitThresholdPercent = 50,
                        !.stopLossPercent = 5, !.takeProfitPercent = 5,
                        !.maxConsecutiveGridPositions = "2",
                        !.maxMarketPositionReopens = "1",
                        !.volatilityDetectorMaxRetries = 1,
                        !.positionSizeType = "BASE", !.positionSize = o[3],
                        !.gridBotNeutralOnly = o[1],
                        !.enablePositionReopen = o[2]] :
        o \in {<<FALSE, TRUE, 1>>, <<TRUE, TRUE, 1>>, <<FALSE, FALSE, 1>>,
               <<FALSE, TRUE, 100000>>}}

InitBot ==
    /\ config \in BotConfigs
    /\ GridInitState
    /\ exit_check = NoCall
    /\ ReopenInitState
    /\ MarketInitState
    /\ BotInitState

NextBot == Run \/ MarkerAppears \/ OrderFills \/ PositionCloses

SpecBot == InitBot /\ [][NextBot]_vars

-----------------------------------------------------------------------------
(* SpecOrders: Bot.place_grid_orders over the modes, the position modes and *)
(* the sizes of the configuration, on grids generated at several centres.   *)

\* (positionSizeType, positionSize): a quote size, no size, a base size of
\* six digits
OrderSizes == {<<"QUOTE", 10>>, <<"QUOTE", 0>>, <<"BASE", 100000>>}

\* (startPrice, endPrice, gridSize)
OrderRanges == {<<900, 1100, 4>>, <<2400000, 2600000, 2>>, <<4, 6, 3>>}

OrderConfigs ==
    {[BaseConfig EXCEPT !.mode = mode, !.dualSidePosition = dual,
                        !.positionSizeType = size[1], !.positionSize = size[2],
                        !.startPrice = range[1], !.endPrice = range[2],
                        !.gridSize = range[3]] :
        mode \in {"long", "short", "neutral"}, dual \in BOOLEAN,
        size \in OrderSizes, range \in OrderRanges}

\* the prices the grid is generated at and the orders are placed at: those
\* of the configured range
OrderPrices ==
    {p \in {5, 6, 1000, 1050, 2500000, 2600000} :
        config.startPrice <= p /\ p <= config.endPrice}

InitOrders ==
    /\ config \in OrderConfigs
    /\ GridInitState
    /\ exit_check = NoCall
    /\ ReopenInitState
    /\ MarketInitState
    /\ BotInitState

\* self.grid.generate(current_price)
GenerateAt == \E c \in OrderPrices : Generate(c)

\* self.place_grid_orders(current_price) on the grid as it stands
PlaceOrders ==
    /\ grid_levels # <<>>
    /\ \E current_price \in OrderPrices :
           tick' = [op |-> "place_grid_orders", price |-> current_price,
                    levels |-> grid_levels,
                    placed |-> PlaceGridOrders(config, grid_levels, 1, current_price)]
    /\ UNCHANGED <<config, gridVars, exit_check, reopenVars, marketVars,
                   bot, close_now, avg_price>>

NextOrders == GenerateAt \/ PlaceOrders

SpecOrders == InitOrders /\ [][NextOrders]_vars

-----------------------------------------------------------------------------
(* SpecPosition: Bot.run over the grid's own position, with the take      *)
(* profit at the next grid level, so that a target can trigger in a tick   *)
(* that does not reset the grid; the market position logic is switched     *)
(* off.                                                                    *)

PositionConfigs ==
    {[BaseConfig EXCEPT !.mode = mode, !.tpMode = "GRID_RANGE",
                        !.stopLossPercent = 5, !.takeProfitPercent = 0,
                        !.maxConsecutiveGridPositions = "2",
                        !.enableRangeExitRule = FALSE,
                        !.enableMarketPositionLogic = FALSE,
                        !.positionSizeType = "BASE", !.positionSize = 1] :
        mode \in {"long", "short"}}

\* prices of the ticks: the centre of the grid and a price beyond the
\* targets on either side
PositionPrices == {940, 1000, 1060}

\* entry price of the fills: the middle level of the grid centred at 1000,
\* between two levels of the grids centred at 940 and at 1060
PositionEntries == {1000}

InitPosition ==
    /\ config \in PositionConfigs
    /\ GridInitState
    /\ exit_check = NoCall
    /\ ReopenInitState
    /\ MarketInitState
    /\ BotInitState

\* between two ticks an order of the grid is filled
PositionOpens ==
    /\ manager.amt = 0
    /\ bot.is_grid_active
    /\ \E a \in {1, -1}, p \in PositionEntries :
           /\ manager' = [manager EXCEPT !.amt = a]
           /\ avg_price' = p
    /\ tick' = [op |-> "none"]
    /\ UNCHANGED <<config, gridVars, exit_check, reopenVars, now, mpm_call, bot, close_now>>

\* a tick of Bot.run with a price: bot.py 111-216; info, close and close_all
\* are the gateway's answers to the position query, to the close on a
\* target and to the close of a reset
PositionTick ==
    /\ ~bot.exited
    /\ \E current_price \in PositionPrices :
       \E w \in PricedRuns(World, config, current_price, now) :
           /\ Len(w.queue) <= MaxBotQueue
           /\ w.bot.position_counter <= MaxPositionCounter
           /\ WithinBounds(w.m)
           /\ bot' = w.bot
           /\ positions_to_reopen' = w.queue
           /\ manager' = [w.m EXCEPT !.calls = <<>>]
           /\ grid_levels' = w.levels
           /\ grid_width' = w.width
           /\ grid_center_price' = w.center
           /\ avg_price' = w.avg
           /\ tick' = [op |-> "run", marker |-> FALSE, price |-> w.price,
                       events |-> w.events, exit_reason |-> w.exit_reason,
                       reset |-> w.reset, seen |-> w.seen,
                       grid_orders |-> w.grid_orders]
    /\ UNCHANGED <<config, exit_check, reopen_call, now, mpm_call, close_now>>

NextPosition == PositionTick \/ PositionOpens \/ PositionCloses

SpecPosition == InitPosition /\ [][NextPosition]_vars

-----------------------------------------------------------------------------
(* SpecTargets: calculate_tp_sl_targets, check_tp_sl_targets and           *)
(* check_exit_conditions on the grid generated at 1000, over the modes,    *)
(* the tpModes and the percents.                                           *)

TargetConfigs ==
    {[BaseConfig EXCEPT !.mode = m, !.tpMode = tm,
                        !.stopLossPercent = sl, !.takeProfitPercent = tp] :
        m \in {"long", "short", "neutral"}, tm \in {"PERCENTAGE", "GRID_RANGE"},
        sl \in {0, 5}, tp \in {0, 5}}

\* entry prices: below the grid, its bottom level, between two levels, its
\* top level and above the grid
TargetEntries == {880, 900, 1020, 1100, 1120}

\* prices the targets and the exits are checked at
TargetPrices == {900, 950, 1000, 1050, 1100}

InitTargets ==
    /\ config \in TargetConfigs
    /\ GridInitState
    /\ exit_check = NoCall
    /\ ReopenInitState
    /\ MarketInitState
    /\ BotInitState

\* Bot.run, a new position: self.position_targets =
\* self.calculate_tp_sl_targets(entry_price, position_side)
CalculateTargets ==
    /\ grid_levels # <<>>
    /\ bot.position_targets = NoTargets
    /\ ~exit_check.called
    /\ \E entry_price \in TargetEntries, position_side \in {"LONG", "BOTH"} :
       \E targets \in {CalculateTpSlTargets(config, grid_levels, entry_price,
                                            position_side)} :
           /\ bot' = [bot EXCEPT !.position_targets = targets]
           /\ tick' = [op |-> "calculate_tp_sl_targets", entry_price |-> entry_price,
                       targets |-> targets]
    /\ UNCHANGED <<config, gridVars, exit_check, reopenVars, marketVars,
                   close_now, avg_price>>

\* Bot.run: tp_sl_trigger = self.check_tp_sl_targets(current_price)
CheckTargets ==
    /\ tick.op = "calculate_tp_sl_targets"
    /\ \E current_price \in TargetPrices :
           tick' = [op |-> "check_tp_sl_targets", price |-> current_price,
                    trigger |-> CheckTpSlTargets(bot, config, current_price)]
    /\ UNCHANGED <<config, gridVars, exit_check, reopenVars, marketVars,
                   bot, close_now, avg_price>>

\* Bot.run: exit_reason = check_exit_conditions(...) with the entry price
\* of the open position
CheckExit ==
    /\ grid_levels # <<>>
    /\ tick.op = "none"
    /\ ~exit_check.called
    /\ \E p \in TargetPrices, n \in 0..MaxPositionCounter, e \in TargetEntries :
           exit_check' = [called |-> TRUE, price |-> p, position_counter |-> n,
                          entry_price |-> e,
                          reason |-> CheckExitConditions(config, grid_center_price,
                                                         grid_width, p, n, e)]
    /\ UNCHANGED <<config, gridVars, reopenVars, marketVars, botVars>>

NextTargets == GenerateAtCenter \/ CalculateTargets \/ CheckTargets \/ CheckExit

SpecTargets == InitTargets /\ [][NextTargets]_vars

-----------------------------------------------------------------------------
(* Claims about Grid.generate *)

\* C6 (as claimed): generate leaves exactly the D + 1 levels
\* L_k = C - W/2 + k * (W / D), k = 0..D, the last one C + W/2.  Stated
\* exactly, with both sides multiplied by 2 * D.
C6_LevelsAsClaimed ==
    grid_levels # <<>> =>
        LET D == config.gridSize
        IN  /\ Len(grid_levels) = D + 1
            /\ \A k \in 0..D :
                   k + 1 <= Len(grid_levels) =>
                       DEq(ExactMul(grid_levels[k + 1], DecOfInt(2 * D)),
                           ExactAdd(ExactMul(ExactAdd(ExactMul(grid_center_price, DecOfInt(2)),
                                                      DNeg(grid_width)),
                                             DecOfInt(D)),
                                    ExactMul(DecOfInt(2 * k), grid_width)))

-----------------------------------------------------------------------------
(* Claims about RiskManager.check_exit_conditions.  The conditions are *)
(* restated in integer arithmetic on the call's arguments.             *)

\* stop loss as specified: percent s configured, entry e known
StopLossTrips ==
    /\ config.stopLossPercent # 0
    /\ exit_check.entry_price # 0
    /\ \/ /\ config.mode = "long"
          /\ 100 * exit_check.price <= exit_check.entry_price * (100 - config.stopLossPercent)
       \/ /\ config.mode = "short"
          /\ 100 * exit_check.price >= exit_check.entry_price * (100 + config.stopLossPercent)

\* take profit as specified: percent t configured, entry e known
TakeProfitTrips ==
    /\ config.takeProfitPercent # 0
    /\ exit_check.entry_price # 0
    /\ \/ /\ config.mode = "long"
          /\ 100 * exit_check.price >= exit_check.entry_price * (100 + config.takeProfitPercent)
       \/ /\ config.mode = "short"
          /\ 100 * exit_check.price <= exit_check.entry_price * (100 - config.takeProfitPercent)

MaxPositionsTrips ==
    /\ config.maxConsecutiveGridPositions # "unlimited"
    /\ exit_check.position_counter >= ParseInt(config.maxConsecutiveGridPositions)

\* 1000 times the bounds of the expanded range:
\* 100 * (C -/+ W/2) -/+ t * W, in tenths
LowerExit1000 ==
    100 * Tenths(grid_center_price) - 50 * Tenths(grid_width)
        - config.rangeExitThresholdPercent * Tenths(grid_width)
UpperExit1000 ==
    100 * Tenths(grid_center_price) + 50 * Tenths(grid_width)
        + config.rangeExitThresholdPercent * Tenths(grid_width)

\* C1: the reason returned is the first match in the order max consecutive
\* positions, stop loss, take profit, range exit: an integer limit reached
\* gives the max-positions reason whatever else trips, "unlimited" never
\* gives it, stop loss goes before take profit and range exit, take profit
\* before range exit.
C1_ExitPriority ==
    exit_check.called =>
        /\ MaxPositionsTrips => exit_check.reason = MaxPositionsReason
        /\ config.maxConsecutiveGridPositions = "unlimited"
               => exit_check.reason # MaxPositionsReason
        /\ (StopLossTrips /\ ~MaxPositionsTrips) => exit_check.reason = StopLossReason
        /\ exit_check.reason = StopLossReason => StopLossTrips
        /\ exit_check.reason = RangeExitReason
               => ~MaxPositionsTrips /\ ~StopLossTrips /\ ~TakeProfitTrips

\* C1 witness: the limit is reached and the stop loss and the range exit trip
\* as well
C1_Witness ==
    /\ exit_check.called
    /\ MaxPositionsTrips
    /\ StopLossTrips
    /\ config.enableRangeExitRule
    /\ exit_check.price = 699
    /\ exit_check.reason = MaxPositionsReason

\* C7: below the max-positions rule, stop loss is reported exactly when the
\* configured percent and the known entry price put the price at or beyond
\* entry * (1 -/+ s/100) (long / short), and otherwise, with tpMode
\* PERCENTAGE, take profit exactly when the price is at or beyond
\* entry * (1 +/- t/100); neither when the percent is not configured or the
\* entry price is unknown.
C7_StopLossTakeProfitThresholds ==
    (exit_check.called /\ ~MaxPositionsTrips) =>
        /\ exit_check.reason = StopLossReason <=> StopLossTrips
        /\ (~StopLossTrips /\ config.tpMode = "PERCENTAGE")
               => (exit_check.reason = TakeProfitReason <=> TakeProfitTrips)

\* C7 witness: long, 5 %, entry 1000, price exactly 950
C7_Witness ==
    /\ exit_check.called
    /\ config.mode = "long"
    /\ config.stopLossPercent = 5
    /\ exit_check.entry_price = 1000
    /\ exit_check.price = 950
    /\ exit_check.reason = StopLossReason

\* C8 (as claimed): with tpMode GRID_RANGE the take-profit reason is never
\* returned.
C8_NoTakeProfitInGridRange ==
    (exit_check.called /\ config.tpMode = "GRID_RANGE")
        => exit_check.reason # TakeProfitReason

HigherPriorityReasons == {MaxPositionsReason, StopLossReason, TakeProfitReason}

-----------------------------------------------------------------------------
(* Claims about the PositionReopenManager *)

\* the entries of before whose attempt failed, in the order of before
RECURSIVE FailedEntries(_, _, _)
FailedEntries(before, results, i) ==
    IF i > Len(before) THEN <<>>
    ELSE (IF results[i] THEN <<>> ELSE <<before[i]>>)
             \o FailedEntries(before, results, i + 1)

\* how many times e occurs in seq
Occurrences(seq, e) == Cardinality({i \in DOMAIN seq : seq[i] = e})

\* s can be had from t by leaving elements out
RECURSIVE IsSubSeq(_, _)
IsSubSeq(s, t) ==
    IF s = <<>> THEN TRUE
    ELSE IF t = <<>> THEN FALSE
    ELSE IF Head(s) = Head(t) THEN IsSubSeq(Tail(s), Tail(t))
    ELSE IsSubSeq(s, Tail(t))

\* a process_reopen_queue call with reopening enabled has just returned
Drained == reopen_call.op = "process_reopen_queue" /\ config.enablePositionReopen

\* one limit order per entry of the queue as it was, in its order
OneOrderPerEntry ==
    reopen_call.orders =
        [i \in 1..Len(reopen_call.before) |-> ReopenOrder(reopen_call.before[i])]

\* C2 as stated: after a drain one limit order per queued entry has been
\* attempted in queue order, and the queue is exactly the sequence of the
\* entries whose attempt failed, in their original relative order.
C2_FailedEntriesInOriginalOrder ==
    Drained =>
        /\ OneOrderPerEntry
        /\ positions_to_reopen = FailedEntries(reopen_call.before, reopen_call.results, 1)

\* C2 amended: after a drain one limit order per queued entry has been
\* attempted in queue order, whatever failed before it; the queue holds each
\* entry as many times as an attempt on it failed, in the order the queue had;
\* it is the sequence of the failed entries in their original order when no
\* two queued entries are equal.
C2_FailedEntriesKept ==
    Drained =>
        LET failed == FailedEntries(reopen_call.before, reopen_call.results, 1)
        IN  /\ OneOrderPerEntry
            /\ Len(positions_to_reopen) = Len(failed)
            /\ \A i \in DOMAIN failed :
                   Occurrences(positions_to_reopen, failed[i]) = Occurrences(failed, failed[i])
            /\ IsSubSeq(positions_to_reopen, reopen_call.before)
            /\ (\A i, j \in DOMAIN reopen_call.before :
                    reopen_call.before[i] = reopen_call.before[j] => i = j)
                   => positions_to_reopen = failed

\* a drain of three entries where the first order failed and the later ones
\* were still attempted, one of them with success
C2_Witness ==
    /\ Drained
    /\ Len(reopen_call.before) = 3
    /\ ~reopen_call.results[1] /\ reopen_call.results[2] /\ ~reopen_call.results[3]
    /\ Len(reopen_call.orders) = 3
    /\ positions_to_reopen = <<reopen_call.before[1], reopen_call.before[3]>>

\* C10: add_position_to_reopen puts the new entry last and grows the queue by
\* one, also when an equal entry is queued and when enablePositionReopen is
\* off; clear_reopen_queue leaves the queue empty; get_queue_size is the
\* number of queued entries.
C10_EnqueueAppendsClearEmpties ==
    /\ reopen_call.op = "add_position_to_reopen" =>
           /\ positions_to_reopen = Append(reopen_call.before, reopen_call.entry)
           /\ GetQueueSize = Len(reopen_call.before) + 1
    /\ reopen_call.op = "clear_reopen_queue" =>
           /\ positions_to_reopen = <<>>
           /\ GetQueueSize = 0
    /\ GetQueueSize = Cardinality(DOMAIN positions_to_reopen)

\* an entry was queued a second time while reopening is switched off
C10_Witness ==
    /\ reopen_call.op = "add_position_to_reopen"
    /\ ~config.enablePositionReopen
    /\ \E i \in DOMAIN reopen_call.before : reopen_call.before[i] = reopen_call.entry
    /\ GetQueueSize = 2

-----------------------------------------------------------------------------
(* Claims about the MarketPositionManager *)

\* maxMarketPositionReopens is an integer
ReopenLimited == config.maxMarketPositionReopens # "unlimited"

MaxReopens == ParseInt(config.maxMarketPositionReopens)

\* handle_market_position_tp_sl has just returned from a call made with the
\* reopens counter at the limit
HandledAtLimit ==
    /\ mpm_call.op = "handle_market_position_tp_sl"
    /\ ReopenLimited
    /\ mpm_call.before.market_position_reopens = MaxReopens

\* no market order was submitted by the call
NoOpenOrder == \A i \in DOMAIN manager.calls : manager.calls[i].call # "create_order"

\* close_position_market was called and failed
CloseFailed ==
    \E i \in DOMAIN manager.calls :
        manager.calls[i].call = "close_position_market" /\ ~manager.calls[i].ok

\* C3 as stated: a TP/SL trigger handled with the counter at the limit N
\* does not reopen, leaves the manager without a position and leaves the
\* counter as it was.
C3_BudgetSpentClosesToIdle ==
    HandledAtLimit =>
        /\ NoOpenOrder
        /\ manager.market_position = "None"
        /\ manager.market_position_reopens = mpm_call.before.market_position_reopens

\* C3 amended: a TP/SL trigger handled with the counter at the limit N
\* submits no market order and leaves the counter as it was; the manager
\* ends without a position unless the exchange refused the closing order,
\* in which case it keeps the position it had.
C3_BudgetSpentNeverReopens ==
    HandledAtLimit =>
        /\ NoOpenOrder
        /\ manager.market_position_reopens = mpm_call.before.market_position_reopens
        /\ IF CloseFailed
           THEN manager.market_position = mpm_call.before.market_position
           ELSE manager.market_position = "None"

\* a trigger at the limit of one reopen closed the position on the exchange
C3_Witness ==
    /\ HandledAtLimit
    /\ MaxReopens = 1
    /\ mpm_call.before.market_position # "None"
    /\ mpm_call.before.amt # 0
    /\ manager.market_position = "None"
    /\ manager.amt = 0

\* C4: with an integer limit N the reopens counter is always in 0..N; after
\* an analysis whose signal differs from the previous one, and after an
\* OPEN_LONG, OPEN_SHORT or CLOSE action, the counter is 0.
C4_ReopensWithinLimit ==
    /\ ReopenLimited => manager.market_position_reopens \in 0..MaxReopens
    /\ (mpm_call.op = "process_analysis" /\ mpm_call.analysed) =>
           /\ (/\ mpm_call.before.last_signal # "None"
               /\ mpm_call.before.last_signal # SignalOf(mpm_call.result))
                  => manager.market_position_reopens = 0
           /\ mpm_call.action \in {"OPEN_LONG", "OPEN_SHORT", "CLOSE"}
                  => manager.market_position_reopens = 0

\* an analysis with a changed signal and no action took the counter from its
\* limit of two back to 0
C4_Witness ==
    /\ mpm_call.op = "process_analysis" /\ mpm_call.analysed
    /\ MaxReopens = 2
    /\ mpm_call.before.market_position_reopens = 2
    /\ mpm_call.before.last_signal # SignalOf(mpm_call.result)
    /\ mpm_call.action = "None"
    /\ manager.market_position_reopens = 0

\* a successful analysis whose result is the result of the successful
\* analysis before it has just returned
RepeatedAnalysis ==
    /\ mpm_call.op = "process_analysis" /\ mpm_call.analysed
    /\ mpm_call.before.last_analysis_result # NoResult
    /\ mpm_call.result.trend = mpm_call.before.last_analysis_result.trend
    /\ mpm_call.result.momentum = mpm_call.before.last_analysis_result.momentum

\* C5: the second of two consecutive successful analyses with the same
\* (trend, momentum) gives no action: no order is submitted, no position
\* closed, and the market position and the reopens counter stay as they were.
C5_Debounce ==
    RepeatedAnalysis =>
        /\ mpm_call.action = "None"
        /\ manager.calls = <<>>
        /\ manager.market_position = mpm_call.before.market_position
        /\ manager.market_position_entry_price = mpm_call.before.market_position_entry_price
        /\ manager.market_position_reopens = mpm_call.before.market_position_reopens
        /\ manager.amt = mpm_call.before.amt

\* (UPTREND, OVERBOUGHT) came a second time while the long position of the
\* first was open
C5_Witness ==
    /\ RepeatedAnalysis
    /\ mpm_call.result = [trend |-> "UPTREND", momentum |-> "OVERBOUGHT"]
    /\ mpm_call.before.market_position = "BUY"
    /\ manager.market_position = "BUY"
    /\ mpm_call.action = "None"

-----------------------------------------------------------------------------
(* Further claims about the PositionReopenManager *)

\* every create_order of the call was answered
AllAnswered(call) == \A i \in DOMAIN call.results : call.results[i]

\* the last two calls were process_reopen_queue calls with reopening enabled
\* and a gateway that answered every order
DrainedTwice ==
    /\ Drained
    /\ reopen_call.prev.op = "process_reopen_queue"
    /\ AllAnswered(reopen_call.prev)
    /\ AllAnswered(reopen_call)

\* C11: process_reopen_queue on an empty queue leaves the queue as it is and
\* submits no order; of two calls in a row with a gateway that answers every
\* order, the first submits the order of each queued entry once, the second
\* submits none, and the queue is empty after both.
C11_DrainIdempotent ==
    /\ (reopen_call.op = "process_reopen_queue" /\ reopen_call.before = <<>>) =>
           /\ positions_to_reopen = <<>>
           /\ reopen_call.orders = <<>>
    /\ DrainedTwice =>
           /\ reopen_call.prev.orders =
                  [i \in 1..Len(reopen_call.prev.before) |->
                      ReopenOrder(reopen_call.prev.before[i])]
           /\ reopen_call.before = <<>>
           /\ reopen_call.orders = <<>>
           /\ positions_to_reopen = <<>>

\* two entries were submitted by the first of two drains and none by the second
C11_Witness ==
    /\ DrainedTwice
    /\ Len(reopen_call.prev.before) = 2
    /\ Len(reopen_call.prev.orders) = 2
    /\ reopen_call.orders = <<>>
    /\ positions_to_reopen = <<>>

-----------------------------------------------------------------------------
(* Further claims about the MarketPositionManager *)

\* a successful analysis has just returned
Analysed == mpm_call.op = "process_analysis" /\ mpm_call.analysed

\* its result is the first or differs from the last recorded one
NewResult ==
    \/ mpm_call.before.last_analysis_result = NoResult
    \/ mpm_call.result.trend # mpm_call.before.last_analysis_result.trend
    \/ mpm_call.result.momentum # mpm_call.before.last_analysis_result.momentum

\* C12: for a successful analysis whose pair is the first or differs from the
\* last recorded result, the action is OPEN_LONG exactly for
\* (UPTREND, OVERBOUGHT), OPEN_SHORT exactly for (DOWNTREND, OVERSOLD), for
\* momentum NEUTRAL it is CLOSE under the policy "stop" and none under
\* "continue", and it is none for every other pair.
C12_ActionTable ==
    (Analysed /\ NewResult) =>
        LET t == mpm_call.result.trend
            mo == mpm_call.result.momentum
        IN  /\ mpm_call.action = "OPEN_LONG" <=> (t = "UPTREND" /\ mo = "OVERBOUGHT")
            /\ mpm_call.action = "OPEN_SHORT" <=> (t = "DOWNTREND" /\ mo = "OVERSOLD")
            /\ mpm_call.action = "CLOSE" <=>
                   (mo = "NEUTRAL" /\ config.neutralMomentumAction = "stop")
            /\ mpm_call.action \in {"OPEN_LONG", "OPEN_SHORT", "CLOSE", "None"}

\* (DOWNTREND, NEUTRAL) after another pair gave CLOSE under the policy "stop"
C12_Witness ==
    /\ Analysed /\ NewResult
    /\ mpm_call.before.last_analysis_result # NoResult
    /\ mpm_call.result = [trend |-> "DOWNTREND", momentum |-> "NEUTRAL"]
    /\ config.neutralMomentumAction = "stop"
    /\ mpm_call.action = "CLOSE"

\* C13: when a successful analysis yields a pair other than the last
\* recorded signal, the reopens counter is 0 once determine_action has
\* returned, before any action is applied and also when there is none; when
\* the pair is the last recorded signal the counter stays as it was.
C13_SignalChangeResetsFirst ==
    Analysed =>
        IF SignalOf(mpm_call.result) # mpm_call.before.last_signal
        THEN mpm_call.determined.market_position_reopens = 0
        ELSE /\ mpm_call.determined.market_position_reopens =
                    mpm_call.before.market_position_reopens
             /\ manager.market_position_reopens = mpm_call.before.market_position_reopens

\* a changed signal found the counter at 1 and took it to 0 before the short
\* position was opened
C13_Witness ==
    /\ Analysed
    /\ mpm_call.before.last_signal # "None"
    /\ SignalOf(mpm_call.result) # mpm_call.before.last_signal
    /\ mpm_call.before.market_position_reopens = 1
    /\ mpm_call.determined.market_position_reopens = 0
    /\ mpm_call.determined.market_position = mpm_call.before.market_position
    /\ mpm_call.action = "OPEN_SHORT"

\* the same signal came again with the counter at 1 and left it there
C13_WitnessUnchanged ==
    /\ Analysed
    /\ SignalOf(mpm_call.result) = mpm_call.before.last_signal
    /\ mpm_call.before.market_position_reopens = 1
    /\ manager.market_position_reopens = 1

\* process_analysis has just returned
AnalysisCalled == mpm_call.op = "process_analysis"

\* the call was made with the logic disabled or less than
\* analysisIntervalMinutes after the last successful analysis
CalledTooEarly ==
    \/ ~config.enableMarketPositionLogic
    \/ /\ mpm_call.before.last_analysis_time # -1
       /\ now - mpm_call.before.last_analysis_time < config.analysisIntervalMinutes

\* C14: process_analysis called with the logic disabled or before the
\* interval since the last successful analysis is over runs no analyzer,
\* makes no gateway call and changes no field of the manager; only a
\* successful analysis moves last_analysis_time, so after a call whose
\* analysis failed the next call is due at once.
C14_NoOpUntilDue ==
    AnalysisCalled =>
        /\ CalledTooEarly =>
               /\ mpm_call.attempts = 0
               /\ mpm_call.outcomes = <<>>
               /\ manager = mpm_call.before
               /\ manager.calls = <<>>
        /\ manager.last_analysis_time =
               IF mpm_call.analysed THEN now ELSE mpm_call.before.last_analysis_time
        /\ (mpm_call.attempts > 0 /\ ~mpm_call.analysed) =>
               ShouldRunAnalysis(manager, config, now)

\* a call one minute after a successful analysis left the long position alone
C14_Witness ==
    /\ AnalysisCalled
    /\ config.enableMarketPositionLogic
    /\ mpm_call.before.last_analysis_time = 0
    /\ now = 1
    /\ mpm_call.before.market_position = "BUY"
    /\ mpm_call.attempts = 0
    /\ manager = mpm_call.before

\* an analysis failed two minutes after a successful one and left the next
\* call due
C14_WitnessFailed ==
    /\ AnalysisCalled
    /\ mpm_call.attempts = 2 /\ ~mpm_call.analysed
    /\ now = 2
    /\ manager.last_analysis_time = 0

\* the runs of the analyzer that return a result
OkRuns == {i \in DOMAIN mpm_call.outcomes : mpm_call.outcomes[i].kind = "ok"}

\* C15: one process_analysis call runs the analyzer at most
\* volatilityDetectorMaxRetries times and stops at the first run that returns
\* a result; a timeout, a non-zero exit, empty output, output that does not
\* parse and an error payload each count as one failed attempt; when every
\* attempt fails, last signal, last analysis result, last analysis time,
\* reopens counter and market position are as before.
C15_BoundedRetries ==
    (AnalysisCalled /\ ~CalledTooEarly) =>
        /\ mpm_call.attempts <= config.volatilityDetectorMaxRetries
        /\ mpm_call.analysed <=> OkRuns # {}
        /\ mpm_call.analysed =>
               /\ mpm_call.attempts \in OkRuns
               /\ \A i \in OkRuns : mpm_call.attempts <= i
               /\ mpm_call.result = mpm_call.outcomes[mpm_call.attempts].result
        /\ ~mpm_call.analysed =>
               /\ mpm_call.attempts = config.volatilityDetectorMaxRetries
               /\ manager = mpm_call.before
               /\ manager.calls = <<>>

\* the first run printed something that is not JSON, the second reported
\* (UPTREND, OVERBOUGHT) and the long position was opened
C15_Witness ==
    /\ AnalysisCalled
    /\ mpm_call.attempts = 2
    /\ mpm_call.outcomes[1].kind = "malformed_json"
    /\ mpm_call.analysed
    /\ mpm_call.action = "OPEN_LONG"
    /\ manager.market_position = "BUY"

\* both runs failed while a position was held, and nothing changed
C15_WitnessGivenUp ==
    /\ AnalysisCalled
    /\ mpm_call.attempts = 2 /\ ~mpm_call.analysed
    /\ {mpm_call.outcomes[1].kind, mpm_call.outcomes[2].kind} = {"timeout", "error_payload"}
    /\ mpm_call.before.market_position # "None"
    /\ manager = mpm_call.before

\* process_analysis has just applied an OPEN_LONG or OPEN_SHORT action
OpenApplied == Analysed /\ mpm_call.action \in {"OPEN_LONG", "OPEN_SHORT"}

\* process_analysis has just applied a CLOSE action
CloseApplied == Analysed /\ mpm_call.action = "CLOSE"

\* the side the action opens
NewSide == IF mpm_call.action = "OPEN_LONG" THEN "BUY" ELSE "SELL"

\* the gateway calls of the call that has just returned
Calls == manager.calls

\* C16 as stated: after an applied OPEN_LONG/OPEN_SHORT the position held
\* before has been closed, the counter is 0 and the manager holds the new
\* side with the current price as entry price; after an applied CLOSE the
\* manager holds no position and the counter is 0.
C16_OpenReplacesCloseClears ==
    /\ OpenApplied =>
           /\ manager.market_position = NewSide
           /\ manager.market_position_entry_price = mpm_call.price
           /\ manager.market_position_reopens = 0
           /\ ~CloseFailed
    /\ CloseApplied =>
           /\ manager.market_position = "None"
           /\ manager.market_position_reopens = 0

\* C16 amended: an applied OPEN_LONG/OPEN_SHORT first attempts to close the
\* position held, leaves the counter at 0 and submits one market order for
\* the new side as its last gateway call; when that order is confirmed the
\* manager holds the new side with the current price as entry price and in
\* its targets, when it is refused the manager is as the close attempt left
\* it.  An applied CLOSE submits no order and leaves the counter at 0.  After
\* a close attempt the manager holds no position unless close_position_market
\* failed, in which case it holds the position it had.
C16_OpenAfterCloseAttempt ==
    LET closed == IF CloseFailed THEN mpm_call.before.market_position ELSE "None"
    IN  /\ OpenApplied =>
               /\ manager.market_position_reopens = 0
               /\ Calls # <<>>
               /\ Calls[Len(Calls)].call = "create_order"
               /\ Calls[Len(Calls)].side = NewSide
               /\ Calls[Len(Calls)].order_type = "MARKET"
               /\ \A i \in 1..(Len(Calls) - 1) : Calls[i].call # "create_order"
               /\ mpm_call.before.market_position # "None" =>
                      Calls[1].call = "get_position_information"
               /\ IF Calls[Len(Calls)].ok
                  THEN /\ manager.market_position = NewSide
                       /\ manager.market_position_entry_price = mpm_call.price
                       /\ manager.market_position_targets.side = NewSide
                       /\ manager.market_position_targets.entry_price = mpm_call.price
                  ELSE manager.market_position = closed
        /\ CloseApplied =>
               /\ manager.market_position_reopens = 0
               /\ NoOpenOrder
               /\ mpm_call.before.market_position # "None" =>
                      Calls[1].call = "get_position_information"
               /\ manager.market_position = closed

\* OPEN_SHORT at 1100 closed the long position held and opened the short one
C16_Witness ==
    /\ OpenApplied
    /\ mpm_call.action = "OPEN_SHORT"
    /\ mpm_call.before.market_position = "BUY"
    /\ mpm_call.price = 1100
    /\ Len(Calls) = 3
    /\ Calls[2].call = "close_position_market" /\ Calls[2].ok
    /\ Calls[3].call = "create_order" /\ Calls[3].ok
    /\ manager.market_position = "SELL"
    /\ manager.market_position_entry_price = 1100
    /\ manager.amt = -1

\* handle_market_position_tp_sl has just returned
Handled == mpm_call.op = "handle_market_position_tp_sl"

\* the gateway answered every call of the call that has just returned
AllCallsOk == \A i \in DOMAIN Calls : Calls[i].ok

\* the reopen budget was not exhausted and the most recent momentum was not
\* NEUTRAL when the trigger came
MayReopen ==
    /\ ReopenLimited => mpm_call.before.market_position_reopens < MaxReopens
    /\ mpm_call.before.last_analysis_result.momentum # "NEUTRAL"

\* C17, for a gateway that answers every call: a TP/SL trigger closes the
\* position; with budget left and a momentum other than NEUTRAL the same side
\* is opened again at the current price and the counter grows by one; in
\* every other case the manager holds no position and the counter is as it
\* was.
C17_TriggerClosesAndReopens ==
    (Handled /\ AllCallsOk) =>
        IF MayReopen
        THEN /\ manager.market_position = mpm_call.before.market_position
             /\ manager.market_position_entry_price = mpm_call.price
             /\ manager.market_position_reopens = mpm_call.before.market_position_reopens + 1
             /\ \E i \in DOMAIN Calls : Calls[i].call = "close_position_market"
             /\ Calls[Len(Calls)].call = "create_order"
        ELSE /\ manager.market_position = "None"
             /\ manager.market_position_reopens = mpm_call.before.market_position_reopens
             /\ NoOpenOrder

-----------------------------------------------------------------------------
(* Claims about Bot.run *)

\* the last step was a call of Bot.run that met no marker and got no price
SkippedTick == tick'.op = "run" /\ ~tick'.marker /\ tick'.price = 0

\* C18: a tick in which the gateway returns no market price, with no
\* shutdown marker present, is skipped: the Bot's fields, the grid, the
\* reopen queue, the market position manager and the position on the
\* exchange are left as they were, and the price query is the only call
\* made, so there is no order, cancel, close or analyzer call.
C18_NoPriceSkipsTick ==
    [][SkippedTick =>
          /\ bot' = bot
          /\ gridVars' = gridVars
          /\ positions_to_reopen' = positions_to_reopen
          /\ manager' = manager
          /\ avg_price' = avg_price
          /\ tick'.events = <<[call |-> "get_market_price", ok |-> FALSE]>>]_vars

\* a tick was skipped although the grid was active, an entry waited in the
\* reopen queue, a position was open and the analysis was due
C18_Witness ==
    /\ tick.op = "run" /\ ~tick.marker /\ tick.price = 0
    /\ bot.is_grid_active
    /\ positions_to_reopen # <<>>
    /\ manager.amt # 0
    /\ ShouldRunAnalysis(manager, config, now)

\* the last step was a call of Bot.run that met the marker
ShutdownTick == tick'.op = "run" /\ tick'.marker

\* the names of the calls of a tick, in order
CallsMade(events) == [i \in 1..Len(events) |-> events[i].call]

\* every call of the tick was answered
EveryCallAnswered(events) == \A i \in 1..Len(events) : events[i].ok

\* the calls of a shutdown that meets a position, or none
ShutdownCalls(position) ==
    <<"cancel_all_open_orders", "get_position_information">>
        \o (IF position THEN <<"close_all_positions">> ELSE <<>>)
        \o <<"os.remove", "sys.exit">>

\* the shutdown cancels, closes the position the exchange holds, removes the
\* marker and exits, in this order, and does nothing else: no price query,
\* no drain, no grid, no analysis, and no field but open_positions written
ShutdownInOrder ==
    /\ CallsMade(tick'.events) = ShutdownCalls(manager.amt # 0)
    /\ ~close_now'
    /\ bot'.exited
    /\ [bot' EXCEPT !.open_positions = <<>>, !.exited = FALSE]
           = [bot EXCEPT !.open_positions = <<>>]
    /\ gridVars' = gridVars
    /\ positions_to_reopen' = positions_to_reopen
    /\ [manager' EXCEPT !.amt = 0] = [manager EXCEPT !.amt = 0]

\* C19: a tick that starts with the shutdown marker present cancels all open
\* orders, then closes any open position, then removes the marker, then
\* ends the process, and does nothing else in that tick; no tick runs after
\* it, and no open position is left when the process ends.
C19_ShutdownLeavesNoPosition ==
    [][/\ ~bot.exited
       /\ ShutdownTick => (ShutdownInOrder /\ manager'.amt = 0)]_vars

\* the last step was a call of Bot.run in which check_exit_conditions
\* returned a reason
ExitTick == tick.op = "run" /\ tick.exit_reason # NoReason

\* the calls of the tick that follow check_exit_conditions
CallsAfterCheck ==
    LET calls == CallsMade(tick.events)
        i     == CHOOSE j \in 1..Len(calls) : calls[j] = "check_exit_conditions"
    IN  SubSeq(calls, i + 1, Len(calls))

\* the calls of a reset that meets a position, or none
ResetCalls(position) ==
    <<"cancel_all_open_orders">>
        \o (IF position THEN <<"close_all_positions">> ELSE <<>>)
        \o <<"clear_reopen_queue">>

\* sequence s begins with sequence p
StartsWith(s, p) == Len(p) <= Len(s) /\ SubSeq(s, 1, Len(p)) = p

\* right after the reset the queue is empty and the counter, the last seen
\* amount, entry price and side, the targets and the grid-active flag are
\* reset; the tick ends with the queue still empty
ExitResetDone ==
    /\ tick.reset.done
    /\ tick.reset.queue = <<>>
    /\ positions_to_reopen = <<>>
    /\ tick.reset.bot.position_counter = 0
    /\ tick.reset.bot._last_position_amt = 0
    /\ tick.reset.bot._last_entry_price = 0
    /\ tick.reset.bot._last_position_side = "None"
    /\ tick.reset.bot.position_targets = NoTargets
    /\ ~tick.reset.bot.is_grid_active

\* C20: whenever check_exit_conditions returns a reason in a tick, in that
\* tick all open orders are cancelled, then the open position is closed, the
\* reopen queue is emptied, position_counter, the last seen amount, entry
\* price and side and the targets are reset and the grid-active flag is
\* cleared; no reopen entry from before the reset is left after it.
C20_ExitClosesAndResets ==
    ExitTick =>
        /\ \/ StartsWith(CallsAfterCheck, ResetCalls(TRUE))
           \/ /\ tick.reset.amt_before = 0
              /\ StartsWith(CallsAfterCheck, ResetCalls(FALSE))
        /\ tick.reset.amt = 0
        /\ ExitResetDone

\* the step was a call of Bot.run that got a price
PricedTick == tick'.op = "run" /\ ~tick'.marker /\ tick'.price # 0

\* the tick reset the grid, on an exit reason or on a momentum that stops a
\* neutral-only grid
ResetInTick == \E i \in 1..Len(tick'.events) : tick'.events[i].call = "clear_reopen_queue"

\* the tick asked for the position, the gateway reported an amount other than
\* zero, and the amount seen on the tick before was zero
NewPositionSeen ==
    /\ tick'.seen.done /\ tick'.seen.ok /\ tick'.seen.amt # 0
    /\ bot._last_position_amt = 0

\* the targets of a long position under tpMode PERCENTAGE, in hundredths
LongTargetsFrom(targets, entry) ==
    /\ targets # NoTargets
    /\ targets.entry_price = entry
    /\ targets.sl_price = entry * (100 - config.stopLossPercent)
    /\ targets.tp_price = entry * (100 + config.takeProfitPercent)

\* C21: the position is followed in exactly the ticks that get a price with
\* the grid active.  position_counter goes up by exactly one in a tick in
\* which the gateway reports an amount other than zero and the amount seen on
\* the tick before was zero, and the targets are then computed from the entry
\* price reported; it does not change in any other tick without a reset, and
\* it is 0 at the end of every tick that reset the grid.
C21_CounterCountsNewPositions ==
    [][tick'.op = "run" =>
          /\ tick'.seen.done = (bot.is_grid_active /\ PricedTick)
          /\ IF NewPositionSeen
             THEN /\ tick'.seen.bot.position_counter = bot.position_counter + 1
                  /\ LongTargetsFrom(tick'.seen.bot.position_targets, tick'.seen.entry)
             ELSE tick'.seen.done =>
                      tick'.seen.bot.position_counter = bot.position_counter
          /\ IF ResetInTick
             THEN bot'.position_counter = 0
             ELSE bot'.position_counter
                      = bot.position_counter + (IF NewPositionSeen THEN 1 ELSE 0)]_vars

\* a tick counted a new position at entry price 1000 and set its targets,
\* and the grid was not reset
C21_Witness ==
    /\ tick.op = "run" /\ tick.seen.done /\ tick.seen.ok /\ tick.seen.amt # 0
    /\ bot.position_counter = 1
    /\ bot.is_grid_active
    /\ bot.position_targets # NoTargets
    /\ bot.position_targets.entry_price = 1000
    /\ bot.position_targets.sl_price = 95000

\* a tick reset the grid after two positions were counted
C21_WitnessReset ==
    /\ tick.op = "run" /\ tick.seen.done
    /\ tick.seen.bot.position_counter = 2
    /\ tick.reset.done
    /\ bot.position_counter = 0

\* the tick asked for the position and the gateway reported the amount zero
\* after an amount other than zero was seen on the tick before
ClosureSeen ==
    /\ tick'.op = "run" /\ tick'.seen.done
    /\ tick'.seen.ok /\ tick'.seen.amt = 0
    /\ bot._last_position_amt # 0

\* the entry that takes the place of the position the Bot saw last
ReopenEntryFor(b) ==
    [side |-> IF b._last_position_amt > 0 THEN "SELL" ELSE "BUY",
     grid_level |-> b._last_entry_price,
     quantity |-> IF b._last_position_amt > 0 THEN b._last_position_amt
                  ELSE -b._last_position_amt]

\* the fields of a queue entry the claim speaks of
EntryFields(e) == [side |-> e.side, grid_level |-> e.grid_level, quantity |-> e.quantity]

\* C22: when a tick with the grid active is told the amount zero after an
\* amount other than zero on the tick before, then with reopening enabled
\* exactly one entry is appended to the reopen queue, SELL after a long and
\* BUY after a short, at the entry price recorded and of the absolute amount
\* seen last; with reopening disabled the queue is left as it was; either
\* way the amount, entry price and side seen last and the targets are
\* cleared.
C22_ClosureEnqueuesOpposite ==
    [][ClosureSeen =>
          /\ IF config.enablePositionReopen
             THEN /\ Len(tick'.seen.queue) = Len(tick'.seen.queue_before) + 1
                  /\ SubSeq(tick'.seen.queue, 1, Len(tick'.seen.queue_before))
                         = tick'.seen.queue_before
                  /\ EntryFields(tick'.seen.queue[Len(tick'.seen.queue)])
                         = ReopenEntryFor(bot)
             ELSE tick'.seen.queue = tick'.seen.queue_before
          /\ tick'.seen.bot._last_position_amt = 0
          /\ tick'.seen.bot._last_entry_price = 0
          /\ tick'.seen.bot._last_position_side = "None"
          /\ tick'.seen.bot.position_targets = NoTargets]_vars

\* a short closed and a BUY at its entry price 1000 was queued
C22_Witness ==
    /\ tick.op = "run" /\ tick.seen.done /\ tick.seen.ok /\ tick.seen.amt = 0
    /\ tick.seen.last = -1
    /\ config.enablePositionReopen
    /\ tick.seen.queue_before = <<>>
    /\ Len(tick.seen.queue) = 1
    /\ tick.seen.queue[1].side = "BUY"
    /\ tick.seen.queue[1].grid_level = 1000

\* a long closed with reopening disabled
C22_WitnessDisabled ==
    /\ tick.op = "run" /\ tick.seen.done /\ tick.seen.ok /\ tick.seen.amt = 0
    /\ tick.seen.last = 1
    /\ ~config.enablePositionReopen
    /\ tick.seen.queue = <<>>

-----------------------------------------------------------------------------
(* Claims about Bot.place_grid_orders *)

\* the last step was a call of place_grid_orders
OrdersPlaced == tick.op = "place_grid_orders"

\* the order is a LIMIT order at one of the levels
LimitAtLevel(o) ==
    /\ o.order_type = "LIMIT"
    /\ \E j \in 1..Len(tick.levels) : DEq(o.price, tick.levels[j])

\* a BUY lies strictly below the price and a SELL strictly above it, long
\* mode has no SELL and short mode no BUY
DirectionalRule(o) ==
    /\ o.side \in {"BUY", "SELL"}
    /\ o.side = "BUY" => DLt(o.price, DecOfFloat(tick.price))
    /\ o.side = "SELL" => DGt(o.price, DecOfFloat(tick.price))
    /\ config.mode = "long" => o.side = "BUY"
    /\ config.mode = "short" => o.side = "SELL"

\* hedge mode: LONG for a BUY and SHORT for a SELL; one-way mode: BOTH
SlotRule(o) ==
    o.position_side = IF ~config.dualSidePosition THEN "BOTH"
                      ELSE IF o.side = "BUY" THEN "LONG" ELSE "SHORT"

\* neutral mode, with a size and levels on both sides of the price, places
\* orders of both sides
NeutralPlacesBoth ==
    (/\ config.mode = "neutral" /\ config.positionSize > 0 /\ ~tick.placed.raised
     /\ \E j \in 1..Len(tick.levels) : DLt(tick.levels[j], DecOfFloat(tick.price))
     /\ \E j \in 1..Len(tick.levels) : DGt(tick.levels[j], DecOfFloat(tick.price)))
    => /\ \E i \in 1..Len(tick.placed.orders) : tick.placed.orders[i].side = "BUY"
       /\ \E i \in 1..Len(tick.placed.orders) : tick.placed.orders[i].side = "SELL"

\* C23: every order place_grid_orders submits is a LIMIT order at a level
\* of the grid with a quantity above zero; a BUY is placed only strictly
\* below the current price and a SELL only strictly above it, so none at a
\* level equal to the price; long mode places no SELL, short mode no BUY,
\* neutral mode both; in hedge mode a BUY has slot LONG and a SELL slot
\* SHORT, in one-way mode every order has slot BOTH.
C23_GridOrdersFollowMode ==
    OrdersPlaced =>
        /\ \A i \in 1..Len(tick.placed.orders) :
               /\ LimitAtLevel(tick.placed.orders[i])
               /\ DGt(tick.placed.orders[i].quantity, DecOfInt(0))
               /\ DirectionalRule(tick.placed.orders[i])
               /\ SlotRule(tick.placed.orders[i])
        /\ NeutralPlacesBoth

-----------------------------------------------------------------------------
(* Claims about the neutral-only grid *)

\* neutral-only mode is on and the momentum last known when the tick starts
\* is not NEUTRAL
MomentumStopsTick ==
    /\ config.gridBotNeutralOnly
    /\ manager.last_analysis_result # NoResult
    /\ manager.last_analysis_result.momentum # "NEUTRAL"

\* the tick made a call of this name
Called(name) == \E i \in 1..Len(tick'.events) : tick'.events[i].call = name

\* the tick left the grid as it was and placed no grid order
NoGridGenerated ==
    /\ ~Called("generate") /\ ~Called("place_grid_orders")
    /\ tick'.grid_orders = <<>>
    /\ gridVars' = gridVars

\* the tick took the grid down: the orders were cancelled, the reopen queue
\* emptied and the counters reset
GridTakenDown ==
    /\ tick'.reset.done
    /\ Called("cancel_all_open_orders")
    /\ tick'.reset.queue = <<>>
    /\ positions_to_reopen' = <<>>
    /\ bot'.position_counter = 0
    /\ bot'._last_position_amt = 0
    /\ bot'._last_entry_price = 0
    /\ bot'._last_position_side = "None"
    /\ bot'.position_targets = NoTargets

\* C24: with neutral-only mode on, a tick that gets a price while the last
\* known momentum is not NEUTRAL generates no grid and places no grid order
\* and ends with the grid inactive; a grid that was active is taken down in
\* that tick, with the orders cancelled, the position closed, the reopen
\* queue emptied and the counters reset.  So the grid is inactive at the end
\* of the first tick with a price after a result that is not NEUTRAL.
C24_NeutralOnlyStopsGrid ==
    [][(PricedTick /\ MomentumStopsTick) =>
          /\ NoGridGenerated
          /\ ~bot'.is_grid_active
          /\ bot.is_grid_active => (GridTakenDown /\ tick'.reset.amt = 0)]_vars

-----------------------------------------------------------------------------
(* Claims about a refused open of the market position *)

\* the analysis decided to open and create_order was refused
OpenRefused ==
    /\ OpenApplied
    /\ Calls # <<>>
    /\ Calls[Len(Calls)].call = "create_order"
    /\ ~Calls[Len(Calls)].ok

\* the analysis gave again the signal whose open was refused, and there is
\* still no market position
SignalPersists ==
    /\ Analysed
    /\ mpm_call.open_failed_before
    /\ mpm_call.before.market_position = "None"
    /\ SignalOf(mpm_call.result) = mpm_call.before.last_signal

\* the refused open left the market position, its entry price and targets
\* and the position on the exchange as they were
RefusedOpenLeavesPosition ==
    (OpenRefused /\ mpm_call.before.market_position = "None") =>
        /\ manager.market_position = "None"
        /\ manager.market_position_entry_price
               = mpm_call.before.market_position_entry_price
        /\ manager.market_position_targets = mpm_call.before.market_position_targets
        /\ manager.amt = mpm_call.before.amt

\* C25: when create_order is refused for an OPEN_LONG or OPEN_SHORT action
\* the refused open leaves the market position, its entry price and its
\* targets as they were, and the next analysis that gives the same signal
\* attempts the open again.
C25_RefusedOpenIsRetried ==
    /\ RefusedOpenLeavesPosition
    /\ SignalPersists =>
           \E i \in DOMAIN Calls : Calls[i].call = "create_order"

-----------------------------------------------------------------------------
\* Claims about a position query that gets no answer

\* the tick asked for the position with the grid active and
\* get_position_information returned None
PositionUnanswered == tick'.op = "run" /\ tick'.seen.done /\ ~tick'.seen.ok

\* the position step left the amount, entry price and side seen last, the
\* targets and the reopen queue as it found them
PositionStepSkipped ==
    /\ tick'.seen.bot._last_position_amt = bot._last_position_amt
    /\ tick'.seen.bot._last_entry_price = bot._last_entry_price
    /\ tick'.seen.bot._last_position_side = bot._last_position_side
    /\ tick'.seen.bot.position_targets = bot.position_targets
    /\ tick'.seen.queue = tick'.seen.queue_before

\* C26: when get_position_information returns nothing in a tick with the
\* grid active, the position step of the tick leaves the amount, entry price
\* and side seen last, the targets and the reopen queue unchanged.
C26_UnansweredQueryIsNoClosure ==
    [][PositionUnanswered => PositionStepSkipped]_vars

-----------------------------------------------------------------------------
\* Claims about the end of the tick loop

\* the tick ended the process
ProcessEnds == tick'.op = "run" /\ bot'.exited /\ ~bot.exited

\* the tick was left by an exception that main.py logs before it returns
RaisedInTick ==
    \E i \in 1..Len(tick'.events) : tick'.events[i].call = "InvalidOperation"

\* C27: no failure of the gateway or of the analysis ends the tick loop:
\* once started, the process ends only in a tick that found the file
\* ".close_now".
C27_OnlyShutdownEndsLoop ==
    [][ProcessEnds => tick'.marker]_vars

-----------------------------------------------------------------------------
\* Claims about the market position and the grid

\* the position on the exchange was opened by the MarketPositionManager: the
\* tick before met no position at its position step, nothing happened
\* since, and the manager holds a side
OpenedByManager ==
    /\ tick.op = "run" /\ tick.seen.done /\ tick.seen.amt = 0
    /\ manager.market_position # "None"
    /\ manager.amt # 0

\* the position step took the position it met for none of the grid's
NotTakenForGrid ==
    /\ tick'.seen.bot.position_counter = bot.position_counter
    /\ tick'.seen.bot.position_targets = bot.position_targets
    /\ tick'.seen.bot._last_position_amt = bot._last_position_amt
    /\ tick'.seen.queue = tick'.seen.queue_before

\* a reset of the tick closed the position and the tick ended without one
ResetClosedPosition ==
    /\ tick'.op = "run" /\ tick'.reset.done
    /\ tick'.reset.amt_before # 0 /\ tick'.reset.amt = 0
    /\ manager'.amt = 0

\* C28: a position opened by the MarketPositionManager is not taken for a
\* position of the grid: the position step that meets it leaves
\* position_counter, the targets, the amount seen last and the reopen queue
\* as they were; and a tick whose reset closed that position does not end
\* with the manager still holding a side.
C28_MarketPositionApartFromGrid ==
    [][(OpenedByManager /\ tick'.op = "run") =>
          /\ tick'.seen.done => NotTakenForGrid
          /\ ResetClosedPosition => manager'.market_position = "None"]_vars

-----------------------------------------------------------------------------
\* Claims about the retries of the reopen queue

\* the call made one limit order for every entry queued, in queue order
AttemptsEveryEntry ==
    reopen_call'.orders =
        [i \in 1..Len(positions_to_reopen) |-> ReopenOrder(positions_to_reopen[i])]

\* the number of orders of the call the gateway answered
RECURSIVE Placed(_, _)
Placed(results, i) ==
    IF i > Len(results) THEN 0
    ELSE (IF results[i] THEN 1 ELSE 0) + Placed(results, i + 1)

\* every entry whose order was refused is still queued, as often as before
RefusedStay ==
    \A i \in 1..Len(positions_to_reopen) :
        ~reopen_call'.results[i] =>
            Occurrences(positions_to_reopen', positions_to_reopen[i])
                >= Occurrences(FailedEntries(positions_to_reopen, reopen_call'.results, 1),
                               positions_to_reopen[i])

\* C29: with reopening enabled every process_reopen_queue call, and so every
\* tick with a price, makes one order for each queued entry, however often
\* it was refused before; the queue grows shorter only by a clear or by as
\* many entries as orders were answered, the refused ones staying; and when
\* the gateway does not refuse for ever, a queue that holds entries is
\* empty again later.
C29_EntriesRetriedUntilPlaced ==
    /\ [][(reopen_call'.op = "process_reopen_queue" /\ config.enablePositionReopen) =>
              /\ AttemptsEveryEntry
              /\ Len(positions_to_reopen')
                     = Len(positions_to_reopen) - Placed(reopen_call'.results, 1)
              /\ RefusedStay]_vars
    /\ [][Len(positions_to_reopen') < Len(positions_to_reopen) =>
              reopen_call'.op \in {"process_reopen_queue", "clear_reopen_queue"}]_vars
    /\ (config.enablePositionReopen /\ positions_to_reopen # <<>>)
           ~> (positions_to_reopen = <<>>)

\* an entry refused in one call was tried again in the next call, placed
\* and taken from the queue
C29_Witness ==
    /\ reopen_call.op = "process_reopen_queue"
    /\ reopen_call.before # <<>>
    /\ \A i \in DOMAIN reopen_call.results : reopen_call.results[i]
    /\ reopen_call.prev.op = "process_reopen_queue"
    /\ reopen_call.prev.before = reopen_call.before
    /\ \A i \in DOMAIN reopen_call.prev.results : ~reopen_call.prev.results[i]
    /\ positions_to_reopen = <<>>

-----------------------------------------------------------------------------
\* Claims about the order of the steps of a tick

\* the place of the first call of that name among the events, 0 for none
FirstCall(events, name) ==
    IF \E i \in 1..Len(events) : events[i].call = name
    THEN CHOOSE i \in 1..Len(events) :
             /\ events[i].call = name
             /\ \A j \in 1..(i - 1) : events[j].call # name
    ELSE 0

\* how often that name was called
TimesCalled(events, name) == Cardinality({i \in 1..Len(events) : events[i].call = name})

\* the calls process_analysis makes itself
AnalysisCalls ==
    {"analyzer", "get_position_information", "close_position_market", "create_order"}

\* process_analysis was called once and no step of Bot.run came after it
AnalysisLast(events) ==
    /\ TimesCalled(events, "process_analysis") = 1
    /\ \A i \in 1..Len(events) :
           i > FirstCall(events, "process_analysis") => events[i].call \in AnalysisCalls

\* a tick with a price that no exception cut short
WholeTick == PricedTick /\ ~RaisedInTick

-----------------------------------------------------------------------------
\* Claims about the grid position's own targets

\* the tick's target triggered and the gateway refused the close
TargetCloseFailed ==
    /\ tick.op = "run"
    /\ tick.seen.done
    /\ CheckTpSlTargets(tick.seen.bot, config, tick.price) # "None"
    /\ \E i \in 1..Len(tick.events) :
           tick.events[i] = [call |-> "close_position_market", ok |-> FALSE]

\* C31: a tick whose target triggers and whose close the gateway refuses
\* leaves the position's targets as the position step left them, so that
\* the trigger is evaluated again in the next tick
C31_FailedCloseKeepsTargets ==
    TargetCloseFailed /\ tick.exit_reason = NoReason =>
        bot.position_targets = tick.seen.bot.position_targets

\* the grid's levels, in hundredths
LevelPrices == {10 * Tenths(grid_levels[i]) : i \in DOMAIN grid_levels}

\* the percentage stop loss of an entry price, in hundredths, 0 for none
PercentStopLoss(entry_price) ==
    IF config.stopLossPercent = 0 THEN 0
    ELSE IF config.mode = "long" THEN entry_price * (100 - config.stopLossPercent)
    ELSE IF config.mode = "short" THEN entry_price * (100 + config.stopLossPercent)
    ELSE 0

\* C32: with tpMode GRID_RANGE the take profit target is the smallest level
\* strictly above the entry price in mode long and the largest level
\* strictly below it in mode short; without such a level, and in mode
\* neutral, there is no take profit target; the stop loss target is the
\* percentage one whatever the tpMode
C32_GridRangeTargets ==
    tick.op = "calculate_tp_sl_targets" =>
        LET t     == tick.targets
            above == {l \in LevelPrices : l > 100 * tick.entry_price}
            below == {l \in LevelPrices : l < 100 * tick.entry_price}
        IN  /\ t.sl_price = PercentStopLoss(tick.entry_price)
            /\ config.tpMode = "GRID_RANGE" =>
                   /\ config.mode = "long" /\ above # {} =>
                          t.tp_price \in above /\ \A l \in above : t.tp_price <= l
                   /\ config.mode = "short" /\ below # {} =>
                          t.tp_price \in below /\ \A l \in below : t.tp_price >= l
                   /\ \/ config.mode = "neutral"
                      \/ config.mode = "long" /\ above = {}
                      \/ config.mode = "short" /\ below = {}
                      => t.tp_price = 0

\* targets were calculated for an entry on the bottom level in mode long,
\* the take profit is the level above it
C32_Witness ==
    /\ tick.op = "calculate_tp_sl_targets"
    /\ config.tpMode = "GRID_RANGE" /\ config.mode = "long"
    /\ config.stopLossPercent = 5
    /\ tick.entry_price = 900
    /\ tick.targets.tp_price = 95000
    /\ tick.targets.sl_price = 85500

\* C40: in mode neutral no percentage stop loss or take profit fires for a
\* grid position: check_exit_conditions returns neither reason, the
\* calculated targets hold neither price and check_tp_sl_targets does not
\* trigger, whatever the price, the entry price and the percents
C40_NeutralNeverStopsOrTakes ==
    config.mode = "neutral" =>
        /\ exit_check.called => exit_check.reason \notin {StopLossReason, TakeProfitReason}
        /\ tick.op = "calculate_tp_sl_targets" =>
               tick.targets.sl_price = 0 /\ tick.targets.tp_price = 0
        /\ tick.op = "check_tp_sl_targets" => tick.trigger = "None"

\* the exits were checked in mode neutral with both percents set, far
\* above the entry price
C40_Witness ==
    /\ config.mode = "neutral"
    /\ config.stopLossPercent = 5 /\ config.takeProfitPercent = 5
    /\ exit_check.called
    /\ exit_check.entry_price = 900 /\ exit_check.price = 1100
    /\ exit_check.position_counter = 0
    /\ exit_check.reason = NoReason

-----------------------------------------------------------------------------
\* Claims about the grid through the ticks

\* the step generated the grid
GeneratedInTick == tick'.op = "run" /\ Called("generate")

\* the exit's reset is followed by generate and by the placement
RegeneratedAfterReset ==
    /\ FirstCall(tick'.events, "clear_reopen_queue")
           < FirstCall(tick'.events, "generate")
    /\ FirstCall(tick'.events, "generate")
           < FirstCall(tick'.events, "place_grid_orders")

PositionLimit == ParseInt(config.maxConsecutiveGridPositions)

\* the tick's position step left the counter at the limit
ReachedLimit ==
    /\ tick.op = "run"
    /\ tick.seen.done
    /\ tick.seen.bot.position_counter = PositionLimit

\* C34: with maxConsecutiveGridPositions an integer L >= 1 the position
\* counter never exceeds L and is below L after every tick: the tick whose
\* position step brings it to L meets the max-positions exit and resets it
\* to 0
C34_CounterBelowLimit ==
    PositionLimit >= 1 =>
        /\ bot.position_counter < PositionLimit
        /\ tick.op = "run" /\ tick.seen.done =>
               tick.seen.bot.position_counter <= PositionLimit
        /\ ReachedLimit =>
               /\ tick.exit_reason = MaxPositionsReason
               /\ tick.reset.done
               /\ tick.reset.bot.position_counter = 0

\* a tick counted the position that reached the limit and reset the counter
C34_Witness ==
    /\ PositionLimit >= 1
    /\ ReachedLimit
    /\ tick.seen.last = 0 /\ tick.seen.amt # 0
    /\ tick.exit_reason = MaxPositionsReason
    /\ bot.position_counter = 0

\* C38: after every tick the last entry price, the last amount and the
\* last side are set together or not at all, targets are held only for a
\* tracked position, and while the grid is inactive the counter is 0, the
\* tracking fields and the targets are cleared and the reopen queue is
\* empty
C38_TrackingConsistent ==
    /\ bot._last_entry_price = 0 <=> bot._last_position_amt = 0
    /\ bot._last_position_amt = 0 <=> bot._last_position_side = "None"
    /\ bot.position_targets # NoTargets => bot._last_position_amt # 0
    /\ ~bot.is_grid_active =>
           /\ bot.position_counter = 0
           /\ bot._last_position_amt = 0
           /\ bot._last_entry_price = 0
           /\ bot._last_position_side = "None"
           /\ bot.position_targets = NoTargets
           /\ positions_to_reopen = <<>>

\* a tick followed a position and then took the grid down
C38_Witness ==
    /\ tick.op = "run"
    /\ tick.seen.done
    /\ tick.seen.bot._last_position_amt # 0
    /\ tick.seen.bot.position_targets # NoTargets
    /\ ~bot.is_grid_active
    /\ ~bot.exited

-----------------------------------------------------------------------------
\* Claims about the reopen queue with reopening disabled

\* queues filled by a caller other than Bot.run
DirectQueues ==
    {<<PositionData(DecOfFloat(1000), "SELL", 1, "1")>>,
     <<PositionData(DecOfFloat(1000), "SELL", 1, "1"),
       PositionData(DecOfFloat(950), "BUY", 1, "0")>>}

\* the tick enqueued an entry or sent an order for one
ReopenedInTick ==
    \/ FirstCall(tick.events, "add_position_to_reopen") > 0
    \/ \E i \in 1..Len(tick.events) :
           /\ tick.events[i].call = "create_order"
           /\ i > 1
           /\ tick.events[i - 1].call = "process_reopen_queue"

\* process_reopen_queue leaves that queue as it is and sends no order
DrainChangesNothing(queue, results) ==
    LET before == [World EXCEPT !.queue = queue]
        after  == DrainStep(before, config, results)
    IN  after = [before EXCEPT !.events = <<[call |-> "process_reopen_queue",
                                              ok |-> TRUE]>>]

\* C39: with enablePositionReopen false the queue stays empty over the
\* ticks and no tick enqueues an entry or sends a reopen order, and
\* process_reopen_queue changes nothing even on a queue that was filled
\* directly
C39_DisabledReopenDoesNothing ==
    ~config.enablePositionReopen =>
        /\ positions_to_reopen = <<>>
        /\ tick.op = "run" => ~ReopenedInTick
        /\ \A queue \in DirectQueues :
           \A results \in [1..Len(queue) -> BOOLEAN] :
               DrainChangesNothing(queue, results)

\* with reopening disabled a tick found the position it followed closed
C39_Witness ==
    /\ ~config.enablePositionReopen
    /\ tick.op = "run"
    /\ tick.seen.done /\ tick.seen.ok
    /\ tick.seen.last # 0 /\ tick.seen.amt = 0
    /\ FirstCall(tick.events, "process_reopen_queue") > 0
    /\ positions_to_reopen = <<>>

-----------------------------------------------------------------------------
\* Claims about the manager's position after a close that failed

\* C35: a call of process_analysis that opens, or of
\* handle_market_position_tp_sl, whose close of the held position failed
\* submits no market order and does not raise the reopen counter
C35_NoOpenOnFailedClose ==
    (OpenApplied \/ Handled) /\ CloseFailed =>
        /\ NoOpenOrder
        /\ manager.market_position_reopens <= mpm_call.before.market_position_reopens

\* the trigger of a held market position was handled while the exchange
\* held no position, or while the position query got no answer
HandledPositionGone ==
    /\ Handled
    /\ mpm_call.before.market_position # "None"
    /\ \/ mpm_call.before.amt = 0
       \/ /\ Calls # <<>>
          /\ Calls[1].call = "get_position_information"
          /\ ~Calls[1].ok

\* C36: handle_market_position_tp_sl called while the gateway reports no
\* position, or no position information, leaves the manager without a
\* market position and without targets
C36_GonePositionEndsIdle ==
    HandledPositionGone =>
        /\ manager.market_position = "None"
        /\ manager.market_position_targets = NoTargets

\* C37: the manager's position fields agree in every state: there is no
\* market position exactly when there are no targets, without a market
\* position there is no entry price, and with one the targets carry its
\* side and its entry price
C37_ManagerFieldsConsistent ==
    /\ manager.market_position = "None" <=> manager.market_position_targets = NoTargets
    /\ manager.market_position = "None" => manager.market_position_entry_price = 0
    /\ manager.market_position # "None" =>
           /\ manager.market_position_targets.side = manager.market_position
           /\ manager.market_position_targets.entry_price
                  = manager.market_position_entry_price

====
